---------------------------- MODULE Spec2Model ----------------------------
(***************************************************************************)
(* A model of the reMarkable sync plugin "slate".                          *)
(*                                                                         *)
(* Spec        a connected plugin: sync triggers, the sync run of          *)
(*             SyncEngine.sync (one step per await), the sync cache        *)
(*             settings.syncState, the vault's output files, the user's    *)
(*             cache resets and file deletions.  A client call is one step *)
(*             whose outcome the network picks.                            *)
(* SpecPlugin  the same runs against Disconnect and registerDevice, which  *)
(*             replaces the client and the SyncEngine.                     *)
(* SpecClient  one RemarkableClient: authedRequest and refreshToken, one   *)
(*             step per await, against savePluginSettings, which calls     *)
(*             updateDeviceToken.                                          *)
(*                                                                         *)
(* Abstractions.  A document's output path (vaultPath/safeName.md) is a    *)
(* fixed location per document id: renames and moves in the cloud are not  *)
(* modelled.  The fetch phase of syncDocument (lines 185-241) and its write*)
(* phase (lines 243-297) are one step each.                                *)
(***************************************************************************)
EXTENDS Integers, Sequences, FiniteSets, TLC

(* ------------------------------ bounds --------------------------------- *)
\* item ids of the cloud account
NItems == 2
\* content versions (hashes) an item can go through
MaxHash == 2
\* SyncEngine instances ever constructed by initClient
MaxEngines == 2
\* sync runs that pass the guard, over all engines
MaxRuns == 2

Ids == 1..NItems
Hashes == 1..MaxHash
Engines == 1..MaxEngines

VARIABLES
    \* ---- plugin (main.ts) and persisted settings
    deviceToken,    \* settings.deviceToken: "" or "tok"
    syncState,      \* settings.syncState: id -> cache record (NoRecord = no key)
    lastSync,       \* settings.lastSyncTimestamp: 0, or the number of the run that set it
    cur,            \* plugin.syncEngine: 0 = null, else the engine initClient made last
    clientToken,    \* engine -> its RemarkableClient's deviceToken
    ui,             \* the settings tab / command handler that is awaiting
    \* ---- SyncEngine instances
    isSyncing,      \* engine -> SyncEngine.isSyncing
    run,            \* engine -> the locals of its sync() call and what the run did
    runs,           \* sync runs started so far
    \* ---- environment
    kind,           \* id -> metadata.type of the item
    outputs,        \* ids whose markdown output file exists in the vault
    revoked,        \* the server no longer accepts the device token
    \* ---- one RemarkableClient in detail (SpecClient)
    userToken,      \* client.userToken: 0 = null, else the token's number
    cDeviceToken,   \* client.deviceToken
    call,           \* the authedRequest call in progress
    issued,         \* session tokens the server has issued
    saving,         \* a savePluginSettings call is awaiting saveData
    \* ---- one call of a parser or of a helper of SyncEngine
    input,          \* the argument of the call
    result          \* what the call has computed so far, or returned

pluginVars == <<deviceToken, syncState, lastSync, cur, clientToken, ui>>
engineVars == <<isSyncing, run, runs>>
pureVars == <<input, result>>
envVars == <<kind, outputs, revoked, pureVars>>
syncVars == <<pluginVars, engineVars, envVars>>
clientVars == <<userToken, cDeviceToken, call, issued, saving>>
vars == <<syncVars, clientVars>>

(* --------------------------- sync cache records ------------------------ *)
\* hash = 0: the id is not a key of syncState.  vaultPath: the record's
\* vaultPath is a non-empty string.  named: visibleName and type are present.
NoRecord == [hash |-> 0, vaultPath |-> FALSE, named |-> FALSE]

Records == [hash : Hashes, vaultPath : BOOLEAN, named : BOOLEAN]

\* SyncEngine.ts:81-88, the record the listing loop writes for a fetched item
ListedRecord(old, h) == [hash |-> h, vaultPath |-> old.vaultPath, named |-> TRUE]

\* SyncEngine.ts:299-303, the record syncDocument writes: no visibleName, no type
SyncedRecord(h) == [hash |-> h, vaultPath |-> TRUE, named |-> FALSE]

\* SyncEngine.ts:58, the unchanged test of the listing loop
IsUnchanged(cached, h) == cached.hash # 0 /\ cached.hash = h /\ cached.named

\* SyncEngine.ts:102-108, the skip test of the per-document loop
IsUpToDate(existing, h, localExists) ==
    existing.hash # 0 /\ existing.hash = h /\ existing.vaultPath /\ localExists

\* a reconciliation that deletes the records of the items still listed
StaleIdsListed(state, rootIds) == {id \in Ids : state[id].hash # 0 /\ id \in rootIds}

\* SyncEngine.ts:120-125, the ids the reconciliation deletes from the cache
StaleIds(state, rootIds) == {id \in Ids : state[id].hash # 0 /\ id \notin rootIds}

PurgeStale(state, rootIds) ==
    [id \in Ids |-> IF id \in StaleIds(state, rootIds) THEN NoRecord ELSE state[id]]

EmptyState == [id \in Ids |-> NoRecord]

\* what the cloud holds: id -> hash of the item's root entry, 0 = the item is
\* not in the root entries-list
Clouds == [Ids -> 0..MaxHash]

RECURSIVE RootEntriesFrom(_, _)
\* the root entries-list of a cloud: one entry per item present, in id order
RootEntriesFrom(c, id) ==
    IF id > NItems THEN <<>>
    ELSE (IF c[id] = 0 THEN <<>> ELSE <<[id |-> id, hash |-> c[id]]>>)
         \o RootEntriesFrom(c, id + 1)

RootEntries(c) == RootEntriesFrom(c, 1)

EntryIds(entries) == {entries[k].id : k \in 1..Len(entries)}

(* ------------------------------ the run -------------------------------- *)
IdleRun ==
    [pc |-> "idle", entries |-> <<>>, i |-> 0, changedDocs |-> <<>>,
     allItems |-> {}, syncedCount |-> 0, errorCount |-> 0,
     \* history: the documents syncDocument was called for, and the documents
     \* whose record, when the listing loop came to their entry, held the
     \* entry's hash and a vaultPath with the output file missing, or held
     \* another hash
     processed |-> {}, missing |-> {}, stale |-> {}]

Running(e) == run[e].pc # "idle"

\* RemarkableClient.ts:180, isRegistered of the engine's client
IsRegistered(e) == clientToken[e] # ""

\* what an awaited client call can come back with: its value, an exhausted
\* authentication (401/403 after the refresh-and-retry, or a failed refresh),
\* or any other failure
Failures == {"auth", "error"}

\* RemarkableClient.ts:99-109 and 188-210, what an awaited client call can
\* come back with: once the device token is revoked the refresh fails in
\* every call, so each call ends with an exhausted authentication
CallOutcomes(values) == IF revoked THEN {"auth"} ELSE values \cup Failures

\* SyncEngine.ts:138-143, catch and finally of sync(): the run is over
Finished == IdleRun

\* a listing loop that ends at the first entry it has dealt with
AfterEntryStops(r) ==
    IF r.i = 0 /\ Len(r.entries) > 0
    THEN [r EXCEPT !.pc = "list", !.i = 1]
    ELSE [r EXCEPT !.pc = "docs", !.i = 1]

\* the loop of SyncEngine.ts:55-96 moves to the next root entry; after the
\* last one the per-document loop of lines 101-117 starts
AfterEntry(r) ==
    IF r.i + 1 > Len(r.entries)
    THEN [r EXCEPT !.pc = "docs", !.i = 1]
    ELSE [r EXCEPT !.pc = "list", !.i = r.i + 1]

\* a per-document loop that passes over the document after this one
EndDocSkipsNext(r) == [r EXCEPT !.pc = "docs", !.i = r.i + 2]

\* SyncEngine.ts:101-117, the per-document loop moves to the next document
EndDoc(r) == [r EXCEPT !.pc = "docs", !.i = r.i + 1]

\* a syncDocument that returns after its last writeFile without saveSettings
AfterWriteNoSave(r) == EndDoc(r)

\* SyncEngine.ts:299-304, after the last writeFile: the record is replaced
\* (by the caller of this operator) and saveSettings is called and awaited
AfterWrite(r) == [r EXCEPT !.pc = "docSave"]

\* a per-document loop without its catch: the failure ends the run
OnDocumentErrorAborts(r) == Finished

\* SyncEngine.ts:113-116, the catch of the per-document loop
OnDocumentError(r) ==
    EndDoc([r EXCEPT !.errorCount = r.errorCount + 1])

(* ---------------------------- Init ------------------------------------- *)
Kinds == {"DocumentType", "CollectionType"}

\* The cache records a previous session can have left on disk for an item:
\* a document's record is the one syncDocument wrote, or the one a later
\* listing wrote over it; a collection's record is the listing's.
LoadableRecords(k) ==
    {NoRecord} \cup
    {r \in Records : IF k = "DocumentType" THEN r.vaultPath \/ r.named
                     ELSE r.named /\ ~r.vaultPath}

\* main.ts:13-19, onload: the settings are loaded from disk, and initClient
\* runs if they hold a device token
InitSync ==
    /\ deviceToken \in {"", "tok"}
    /\ kind \in [Ids -> Kinds]
    /\ revoked = FALSE
    /\ syncState \in [Ids -> Records \cup {NoRecord}]
    /\ \A id \in Ids : syncState[id] \in LoadableRecords(kind[id])
    /\ deviceToken = "" => syncState = EmptyState
    /\ lastSync = 0
    /\ cur = IF deviceToken = "" THEN 0 ELSE 1
    /\ clientToken = [e \in Engines |-> IF e = 1 THEN deviceToken ELSE ""]
    /\ ui = "idle"
    /\ isSyncing = [e \in Engines |-> FALSE]
    /\ run = [e \in Engines |-> IdleRun]
    /\ runs = 0
    /\ outputs \in SUBSET {id \in Ids : kind[id] = "DocumentType"}

\* no parser or helper call is being followed
NoInput == <<>>

NoResult == [done |-> FALSE]

InitPureIdle == input = NoInput /\ result = NoResult

\* no authedRequest call in progress.  header: the session token the
\* request in flight carries (0 = null); sends: the requests sent for the
\* call; refreshes: the refreshToken calls made from the catch; raw: what
\* requestUrl gave the last request; err1, err2: the status of the
\* RmApiError of the first request and of the retry; thrown: the status of
\* the error the call ended with
NoCall ==
    [pc |-> "idle", header |-> 0, sends |-> 0, refreshes |-> 0,
     raw |-> {}, err1 |-> {}, err2 |-> {}, thrown |-> {}]

\* RemarkableClient.ts:78-83, a client made by initClient for a connected
\* device: no session token yet
InitClientIdle ==
    /\ userToken = 0
    /\ cDeviceToken = "tok"
    /\ call = NoCall
    /\ issued = 0
    /\ saving = FALSE

(* --------------------------- sync triggers ----------------------------- *)
\* main.ts:77-82 runSync, and SyncEngine.ts:31-46: the guard, then
\* isSyncing = true and the call of refreshToken
RunSync ==
    IF cur = 0 THEN UNCHANGED <<isSyncing, run, runs>>
    ELSE IF isSyncing[cur] \/ ~IsRegistered(cur)
    THEN UNCHANGED <<isSyncing, run, runs>>
    ELSE /\ runs < MaxRuns
         /\ isSyncing' = [isSyncing EXCEPT ![cur] = TRUE]
         /\ run' = [run EXCEPT ![cur] = [IdleRun EXCEPT !.pc = "auth"]]
         /\ runs' = runs + 1

\* main.ts:30, 36, 53 and SettingsTab.ts:135-138: status bar, command,
\* startup timer, "Sync" button
Trigger ==
    /\ RunSync
    /\ UNCHANGED <<pluginVars, envVars, clientVars>>

(* ------------------------------ the run -------------------------------- *)
\* SyncEngine.ts:46, refreshToken returns or throws
AuthDone(e) ==
    /\ run[e].pc = "auth"
    /\ \E o \in CallOutcomes({"ok"}) :
        IF o = "ok"
        THEN /\ run' = [run EXCEPT ![e].pc = "root"]
             /\ UNCHANGED isSyncing
        ELSE /\ run' = [run EXCEPT ![e] = Finished]
             /\ isSyncing' = [isSyncing EXCEPT ![e] = FALSE]
    /\ UNCHANGED <<pluginVars, runs, envVars, clientVars>>

\* SyncEngine.ts:49, getRootHash: the root hash names one version of the
\* root entries-list, whatever the cloud holds at that time
RootDone(e) ==
    /\ run[e].pc = "root"
    /\ \E o \in CallOutcomes({"ok"}), cloud \in Clouds :
        IF o = "ok"
        THEN /\ run' = [run EXCEPT ![e].pc = "entries",
                                   ![e].entries = RootEntries(cloud)]
             /\ UNCHANGED isSyncing
        ELSE /\ run' = [run EXCEPT ![e] = Finished]
             /\ isSyncing' = [isSyncing EXCEPT ![e] = FALSE]
    /\ UNCHANGED <<pluginVars, runs, envVars, clientVars>>

\* SyncEngine.ts:50-55, getEntries(root.hash) returns the list or throws
\* (fetch or parse failure)
EntriesDone(e) ==
    /\ run[e].pc = "entries"
    /\ \E o \in CallOutcomes({"ok"}) :
        IF o = "ok"
        THEN /\ run' = [run EXCEPT ![e] = AfterEntry([run[e] EXCEPT !.i = 0])]
             /\ UNCHANGED isSyncing
        ELSE /\ run' = [run EXCEPT ![e] = Finished]
             /\ isSyncing' = [isSyncing EXCEPT ![e] = FALSE]
    /\ UNCHANGED <<pluginVars, runs, envVars, clientVars>>

\* what the run notes about a root entry when the listing loop examines it
Examined(r, id, h) ==
    IF kind[id] # "DocumentType" THEN r
    ELSE [r EXCEPT !.missing = IF /\ syncState[id].hash = h
                                   /\ syncState[id].vaultPath
                                   /\ id \notin outputs
                                THEN @ \cup {id} ELSE @,
                   !.stale = IF syncState[id].hash \notin {0, h}
                              THEN @ \cup {id} ELSE @]

\* SyncEngine.ts:55-76 and 150-152: one root entry; unchanged entries are
\* rebuilt from the cache, the others start fetchItem (getEntries)
ListEntry(e) ==
    /\ run[e].pc = "list"
    /\ LET r == run[e]
           entry == r.entries[r.i]
           x == Examined(r, entry.id, entry.hash)
       IN  IF IsUnchanged(syncState[entry.id], entry.hash)
           THEN run' = [run EXCEPT ![e] =
                           AfterEntry([x EXCEPT !.allItems = @ \cup {entry.id}])]
           ELSE run' = [run EXCEPT ![e] =
                           [x EXCEPT !.pc = "fetchEntries"]]
    /\ UNCHANGED <<pluginVars, isSyncing, runs, envVars, clientVars>>

\* SyncEngine.ts:152-161: the item's entries-list arrives (then the metadata
\* blob is requested), has no .metadata entry, or the fetch fails
FetchEntriesDone(e) ==
    /\ run[e].pc = "fetchEntries"
    /\ LET r == run[e]
           id == r.entries[r.i].id
       IN  \E o \in CallOutcomes({"ok", "nometa"}) :
            IF o = "ok"
            THEN run' = [run EXCEPT ![e].pc = "fetchMeta"]
            ELSE run' = [run EXCEPT ![e] =
                            AfterEntry(r)]
    /\ UNCHANGED <<pluginVars, isSyncing, runs, envVars, clientVars>>

\* SyncEngine.ts:161-177 and 77-95: the metadata arrives; a deleted item or
\* one of unknown type gives null, a failed fetch or parse is caught; an
\* item is cached, and queued if it is a document
FetchMetaDone(e) ==
    /\ run[e].pc = "fetchMeta"
    /\ LET r == run[e]
           entry == r.entries[r.i]
           id == entry.id
       IN  \E o \in CallOutcomes({"ok", "null"}) :
            IF o = "ok"
            THEN /\ syncState' = [syncState EXCEPT
                                    ![id] = ListedRecord(syncState[id], entry.hash)]
                 /\ run' = [run EXCEPT ![e] =
                        AfterEntry([r EXCEPT
                            !.allItems = @ \cup {id},
                            !.changedDocs =
                                IF kind[id] = "DocumentType"
                                THEN Append(@, entry) ELSE @])]
            ELSE /\ run' = [run EXCEPT ![e] =
                                AfterEntry(r)]
                 /\ UNCHANGED syncState
    /\ UNCHANGED <<deviceToken, lastSync, cur, clientToken, ui,
                   isSyncing, runs, envVars, clientVars>>

\* SyncEngine.ts:101-111: the next changed document is skipped when its
\* record and output are in place, else syncDocument is called
NextDocument(e) ==
    /\ run[e].pc = "docs"
    /\ run[e].i <= Len(run[e].changedDocs)
    /\ LET r == run[e]
           doc == r.changedDocs[r.i]
       IN  IF IsUpToDate(syncState[doc.id], doc.hash, doc.id \in outputs)
           THEN run' = [run EXCEPT ![e] = EndDoc(r)]
           ELSE run' = [run EXCEPT ![e] =
                           [r EXCEPT !.pc = "docFetch",
                                     !.processed = @ \cup {doc.id}]]
    /\ UNCHANGED <<pluginVars, isSyncing, runs, envVars, clientVars>>

\* SyncEngine.ts:185-241 (and 207-209, 264-266): the document's blobs are
\* fetched and decoded; syncDocument returns early (excluded type, nothing
\* to write), goes on to write, or throws.  A failed fetch of the content
\* descriptor or of a page is caught inside syncDocument (lines 202, 238):
\* when every call fails, a document without a base file returns early.
DocFetchDone(e) ==
    /\ run[e].pc = "docFetch"
    /\ LET r == run[e]
       IN  \E o \in CallOutcomes({"ok", "return"}) \cup
                      (IF revoked THEN {"return"} ELSE {}) :
            CASE o = "ok" -> run' = [run EXCEPT ![e].pc = "docWrite"]
              [] o = "return" ->
                    run' = [run EXCEPT ![e] =
                        EndDoc([r EXCEPT !.syncedCount = @ + 1])]
              [] OTHER -> run' = [run EXCEPT ![e] = OnDocumentError(r)]
    /\ UNCHANGED <<pluginVars, isSyncing, runs, envVars, clientVars>>

\* SyncEngine.ts:243-304: the outputs are written (the markdown file last),
\* the record is replaced and saveSettings is called; or a write throws
DocWriteDone(e) ==
    /\ run[e].pc = "docWrite"
    /\ LET r == run[e]
           doc == r.changedDocs[r.i]
       IN  \E o \in {"ok", "error"} :
            IF o = "ok"
            THEN /\ outputs' = outputs \cup {doc.id}
                 /\ syncState' = [syncState EXCEPT ![doc.id] = SyncedRecord(doc.hash)]
                 /\ run' = [run EXCEPT ![e] = AfterWrite(r)]
            ELSE /\ run' = [run EXCEPT ![e] = OnDocumentError(r)]
                 /\ UNCHANGED <<outputs, syncState>>
    /\ UNCHANGED <<deviceToken, lastSync, cur, clientToken, ui,
                   isSyncing, runs, kind, revoked, pureVars, clientVars>>

\* SyncEngine.ts:304 and 112-116: saveSettings returns or throws
DocSaveDone(e) ==
    /\ run[e].pc = "docSave"
    /\ LET r == run[e]
       IN  \E o \in {"ok", "error"} :
            IF o = "ok"
            THEN run' = [run EXCEPT ![e] =
                            EndDoc([r EXCEPT !.syncedCount = @ + 1])]
            ELSE run' = [run EXCEPT ![e] =
                            OnDocumentError(r)]
    /\ UNCHANGED <<pluginVars, isSyncing, runs, envVars, clientVars>>

\* a reconciliation that does not wait for the per-document loop to end
ReconcileEarly(e) ==
    /\ run[e].pc = "docs"
    /\ syncState' = PurgeStale(syncState, EntryIds(run[e].entries))
    /\ lastSync' = runs
    /\ run' = [run EXCEPT ![e].pc = "finalSave"]
    /\ UNCHANGED <<deviceToken, cur, clientToken, ui, isSyncing, runs,
                   envVars, clientVars>>

\* SyncEngine.ts:119-128: stale records are purged, the timestamp is set and
\* saveSettings is called
Reconcile(e) ==
    /\ run[e].pc = "docs"
    /\ run[e].i > Len(run[e].changedDocs)
    /\ syncState' = PurgeStale(syncState, EntryIds(run[e].entries))
    /\ lastSync' = runs
    /\ run' = [run EXCEPT ![e].pc = "finalSave"]
    /\ UNCHANGED <<deviceToken, cur, clientToken, ui, isSyncing, runs,
                   envVars, clientVars>>

\* SyncEngine.ts:128-143: saveSettings returns or throws; the guard is
\* released either way
FinalSaveDone(e) ==
    /\ run[e].pc = "finalSave"
    /\ run' = [run EXCEPT ![e] = Finished]
    /\ isSyncing' = [isSyncing EXCEPT ![e] = FALSE]
    /\ UNCHANGED <<pluginVars, runs, envVars, clientVars>>

(* ------------------------ settings tab, commands ----------------------- *)
\* SettingsTab.ts:49-56, Disconnect: savePluginSettings then skips
\* updateDeviceToken (main.ts:93), the token being empty
Disconnect ==
    /\ ui = "idle"
    /\ deviceToken # ""
    /\ deviceToken' = ""
    /\ syncState' = EmptyState
    /\ UNCHANGED <<lastSync, cur, clientToken, ui, engineVars, envVars, clientVars>>

\* SettingsTab.ts:160-173, registerDevice awaits RemarkableClient.register
RegisterDevice ==
    /\ ui = "idle"
    /\ deviceToken = ""
    /\ cur < MaxEngines
    /\ ui' = "register"
    /\ UNCHANGED <<deviceToken, syncState, lastSync, cur, clientToken,
                   engineVars, envVars, clientVars>>

\* SettingsTab.ts:173-177 and 182-185: the device token arrives and
\* savePluginSettings is called, or the registration fails
RegisterDone ==
    /\ ui = "register"
    /\ \E o \in {"ok", "error"} :
        IF o = "ok"
        THEN deviceToken' = "tok" /\ ui' = "registerSave"
        ELSE ui' = "idle" /\ UNCHANGED deviceToken
    /\ UNCHANGED <<syncState, lastSync, cur, clientToken, engineVars, envVars, clientVars>>

\* main.ts:64-75, initClient: a new client and a new SyncEngine
NewClient(tokens, n) == [tokens EXCEPT ![n] = deviceToken]

\* main.ts:93-95 and SettingsTab.ts:178: savePluginSettings hands the token
\* to the client in place, then initClient replaces client and engine
RegisterSaved ==
    /\ ui = "registerSave"
    /\ cur' = cur + 1
    /\ clientToken' =
         NewClient(IF cur # 0 /\ deviceToken # ""
                    THEN [clientToken EXCEPT ![cur] = deviceToken]
                   ELSE clientToken, cur + 1)
    /\ ui' = "idle"
    /\ UNCHANGED <<deviceToken, syncState, lastSync, engineVars, envVars, clientVars>>

\* SettingsTab.ts:148-154, "Reset sync state"
ResetSyncState ==
    /\ ui = "idle"
    /\ deviceToken # ""
    /\ syncState # EmptyState \/ lastSync # 0
    /\ syncState' = EmptyState
    /\ lastSync' = 0
    /\ UNCHANGED <<deviceToken, cur, clientToken, ui, engineVars, envVars, clientVars>>

\* main.ts:42-45, "Force re-sync": the cache is emptied and saved; the
\* runSync the command then awaits is a Trigger step
ForceSync ==
    /\ ui = "idle"
    /\ syncState # EmptyState
    /\ syncState' = EmptyState
    /\ UNCHANGED <<deviceToken, lastSync, cur, clientToken, ui, engineVars, envVars, clientVars>>

(* ----------------------------- environment ----------------------------- *)
\* the user deletes a document's output file from the vault
DeleteOutput(id) ==
    /\ id \in outputs
    /\ outputs' = outputs \ {id}
    /\ UNCHANGED <<pluginVars, engineVars, kind, revoked, pureVars, clientVars>>

\* the reMarkable account revokes the device token (the device is removed
\* from the account); RemarkableClient.ts:102-106 then fails with 401
Revoke ==
    /\ ~revoked
    /\ revoked' = TRUE
    /\ UNCHANGED <<pluginVars, engineVars, kind, outputs, pureVars, clientVars>>

(* ------------------------------- Spec ---------------------------------- *)
\* one step of a sync run
RunStep(e) ==
    \/ AuthDone(e)
    \/ RootDone(e)
    \/ EntriesDone(e)
    \/ ListEntry(e)
    \/ FetchEntriesDone(e)
    \/ FetchMetaDone(e)
    \/ NextDocument(e)
    \/ DocFetchDone(e)
    \/ DocWriteDone(e)
    \/ DocSaveDone(e)
    \/ Reconcile(e)
    \/ FinalSaveDone(e)

\* a connected plugin: sync runs against the user's resets and deletions
Next ==
    \/ Trigger
    \/ \E e \in Engines : RunStep(e)
    \/ ResetSyncState
    \/ ForceSync
    \/ \E id \in Ids : DeleteOutput(id)

Init == InitSync /\ deviceToken = "tok" /\ InitClientIdle /\ InitPureIdle

Spec == Init /\ [][Next]_vars

\* the plugin with the device registration of the settings tab, from a
\* first start (no output written yet) or with a device connected
NextPlugin ==
    \/ Trigger
    \/ \E e \in Engines : RunStep(e)
    \/ Disconnect
    \/ RegisterDevice
    \/ RegisterDone
    \/ RegisterSaved

InitPlugin ==
    InitSync /\ syncState = EmptyState /\ outputs = {} /\ InitClientIdle /\ InitPureIdle

SpecPlugin == InitPlugin /\ [][NextPlugin]_vars

\* a connected plugin whose device token can be revoked at any time
NextAuth ==
    \/ Trigger
    \/ \E e \in Engines : RunStep(e)
    \/ Revoke

SpecAuth == Init /\ [][NextAuth]_vars

\* the same, where every awaited call, write and save eventually resolves
\* or rejects and its continuation is run
SpecAuthFair == SpecAuth /\ \A e \in Engines : WF_vars(RunStep(e))

(* ------------------------- RemarkableClient ---------------------------- *)
\* session tokens the server issues to the client
MaxTokens == 2

\* HTTP statuses requestUrl throws for
ErrorStatuses == {401, 403, 404, 500}

\* what requestUrl does with a request: it returns the response, or throws an
\* error with a numeric status, or throws one without (transport failure)
RequestOutcomes ==
    {[ok |-> TRUE, hasStatus |-> TRUE, status |-> 200]}
    \cup {[ok |-> FALSE, hasStatus |-> TRUE, status |-> c] : c \in ErrorStatuses}
    \cup {[ok |-> FALSE, hasStatus |-> FALSE, status |-> 0]}

\* RemarkableClient.ts:28-32, the status of the RmApiError rmRequest throws:
\* statusCode ?? 0
RmApiErrorStatus(o) == IF o.hasStatus THEN o.status ELSE 0

\* RemarkableClient.ts:200, the test of the catch in authedRequest
IsAuthFailure(status) == status \in {401, 403}

\* an authedRequest that refreshes after any failure of its first request
OnFirstResponseAlwaysRefresh(o) == IF o.ok THEN "return" ELSE "refresh"

\* RemarkableClient.ts:193-209, what authedRequest does with the outcome of
\* its first request
OnFirstResponse(o) ==
    IF o.ok THEN "return"
    ELSE IF IsAuthFailure(RmApiErrorStatus(o)) THEN "refresh" ELSE "throw"

\* an authedRequest that treats the retry's outcome as the first request's
OnRetryResponseAgain(o) == OnFirstResponse(o)

\* RemarkableClient.ts:202-206, what authedRequest does with the outcome of
\* the retry: the awaited rmRequest returns or throws out of the catch
OnRetryResponse(o) == IF o.ok THEN "return" ELSE "throw"

\* the call ends by throwing an error of the given status
Threw(c, status) == [c EXCEPT !.pc = "threw", !.thrown = {status}]

\* RemarkableClient.ts:99-106, refreshToken up to its await, called from the
\* call c: without a device token it throws, else the request is sent
StartRefresh(c, waiting) ==
    IF cDeviceToken = "" THEN Threw(c, 0) ELSE [c EXCEPT !.pc = waiting]

\* RemarkableClient.ts:188-198, authedRequest: without a session token
\* refreshToken is awaited first, else the request is sent with the token
AuthedRequest ==
    /\ call.pc = "idle"
    /\ call' = IF userToken = 0
               THEN StartRefresh(call, "refresh")
               ELSE [call EXCEPT !.pc = "request", !.header = userToken, !.sends = 1]
    /\ UNCHANGED <<userToken, cDeviceToken, issued, saving, syncVars>>

\* RemarkableClient.ts:102-108, the refresh request returns a session token
\* or rmRequest throws; after is where the awaiting authedRequest resumes
RefreshReturns(from, after) ==
    /\ call.pc = from
    /\ \E o \in RequestOutcomes :
        IF o.ok
        THEN /\ issued < MaxTokens
             /\ issued' = issued + 1
             /\ userToken' = issued + 1
             /\ call' = [call EXCEPT !.pc = after]
        ELSE /\ call' = Threw(call, RmApiErrorStatus(o))
             /\ UNCHANGED <<userToken, issued>>
    /\ UNCHANGED <<cDeviceToken, saving, syncVars>>

\* RemarkableClient.ts:190-198, refreshToken called with no session token
RefreshDone == RefreshReturns("refresh", "resume")

\* RemarkableClient.ts:193-198, authedRequest resumes after the awaited
\* refreshToken and sends the request with this.userToken
Resume ==
    /\ call.pc = "resume"
    /\ call' = [call EXCEPT !.pc = "request", !.header = userToken, !.sends = @ + 1]
    /\ UNCHANGED <<userToken, cDeviceToken, issued, saving, syncVars>>

\* RemarkableClient.ts:193-209, the first request's outcome
RequestDone ==
    /\ call.pc = "request"
    /\ \E o \in RequestOutcomes :
        LET c == [call EXCEPT !.raw = {o},
                              !.err1 = IF o.ok THEN {} ELSE {RmApiErrorStatus(o)}]
            next == OnFirstResponse(o)
        IN  call' =
              CASE next = "return" -> [c EXCEPT !.pc = "returned"]
                [] next = "refresh" ->
                      StartRefresh([c EXCEPT !.refreshes = @ + 1], "retryRefresh")
                [] OTHER -> Threw(c, RmApiErrorStatus(o))
    /\ UNCHANGED <<userToken, cDeviceToken, issued, saving, syncVars>>

\* RemarkableClient.ts:201, refreshToken called from the catch
RetryRefreshDone == RefreshReturns("retryRefresh", "retryResume")

\* RemarkableClient.ts:202-206, authedRequest resumes after the awaited
\* refreshToken and sends the request again with this.userToken
RetryResume ==
    /\ call.pc = "retryResume"
    /\ call' = [call EXCEPT !.pc = "retry", !.header = userToken, !.sends = @ + 1]
    /\ UNCHANGED <<userToken, cDeviceToken, issued, saving, syncVars>>

\* RemarkableClient.ts:202-206, the retry's outcome
RetryDone ==
    /\ call.pc = "retry"
    /\ \E o \in RequestOutcomes :
        LET c == [call EXCEPT !.raw = {o},
                              !.err2 = IF o.ok THEN {} ELSE {RmApiErrorStatus(o)}]
            next == OnRetryResponse(o)
        IN  call' =
              CASE next = "return" -> [c EXCEPT !.pc = "returned"]
                [] next = "refresh" ->
                      StartRefresh([c EXCEPT !.refreshes = @ + 1], "retryRefresh")
                [] OTHER -> Threw(c, RmApiErrorStatus(o))
    /\ UNCHANGED <<userToken, cDeviceToken, issued, saving, syncVars>>

\* the caller has the result; the client is ready for its next call
CallEnds ==
    /\ call.pc \in {"returned", "threw"}
    /\ call' = NoCall
    /\ UNCHANGED <<userToken, cDeviceToken, issued, saving, syncVars>>

\* main.ts:90-91, savePluginSettings awaits saveData (called by the sync
\* run after each document and at its end, and by every settings handler)
SavePluginSettings ==
    /\ ~saving
    /\ saving' = TRUE
    /\ UNCHANGED <<userToken, cDeviceToken, call, issued, syncVars>>

\* RemarkableClient.ts:183-186, updateDeviceToken
UpdateDeviceToken(token) ==
    /\ cDeviceToken' = token
    /\ userToken' = 0

\* main.ts:92-95, savePluginSettings resumes: the client is given the
\* settings' device token
SettingsSaved ==
    /\ saving
    /\ saving' = FALSE
    /\ IF deviceToken # ""
       THEN UpdateDeviceToken(deviceToken)
       ELSE UNCHANGED <<cDeviceToken, userToken>>
    /\ UNCHANGED <<call, issued, syncVars>>

NextClient ==
    \/ AuthedRequest
    \/ RefreshDone
    \/ Resume
    \/ RequestDone
    \/ RetryRefreshDone
    \/ RetryResume
    \/ RetryDone
    \/ CallEnds
    \/ SavePluginSettings
    \/ SettingsSaved

\* a connected plugin with nothing synced and no run in progress
InitSyncIdle ==
    /\ InitSync
    /\ deviceToken = "tok"
    /\ syncState = EmptyState
    /\ outputs = {}
    /\ kind = [id \in Ids |-> "DocumentType"]

InitClient == InitSyncIdle /\ InitClientIdle /\ InitPureIdle

SpecClient == InitClient /\ [][NextClient]_vars

(* ------------------------------ strings -------------------------------- *)
\* A string is the sequence of its characters.

\* the value undefined (a missing array element, a missing property); as a
\* string it reads "undefined"
Undefined == <<"undefined">>

\* Array index: the element, or undefined past the end
At(arr, k) == IF k \in 1..Len(arr) THEN arr[k] ELSE Undefined

\* String.prototype.slice(0, -1): all but the last character
SliceOffLast(str) == IF Len(str) = 0 THEN <<>> ELSE SubSeq(str, 1, Len(str) - 1)

RECURSIVE Split(_, _)
\* String.prototype.split(sep) for a one-character separator
Split(str, sep) ==
    IF \E k \in 1..Len(str) : str[k] = sep
    THEN LET k == CHOOSE k \in 1..Len(str) :
                      str[k] = sep /\ \A j \in 1..(k - 1) : str[j] # sep
         IN  <<SubSeq(str, 1, k - 1)>> \o Split(SubSeq(str, k + 1, Len(str)), sep)
    ELSE <<str>>

Digits == {"0", "1", "2", "3", "4", "5", "6", "7", "8", "9"}

DigitValue(c) ==
    CASE c = "0" -> 0 [] c = "1" -> 1 [] c = "2" -> 2 [] c = "3" -> 3
      [] c = "4" -> 4 [] c = "5" -> 5 [] c = "6" -> 6 [] c = "7" -> 7
      [] c = "8" -> 8 [] c = "9" -> 9

WhiteSpace == {" ", "\t", "\n", "\r"}

NaN == [nan |-> TRUE, val |-> 0]

Number(n) == [nan |-> FALSE, val |-> n]

RECURSIVE DecimalPrefix(_, _, _)
\* the value of the longest prefix of decimal digits of str from position k
\* on, acc being the value of the digits read so far
DecimalPrefix(str, k, acc) ==
    IF k <= Len(str) /\ str[k] \in Digits
    THEN DecimalPrefix(str, k + 1, 10 * acc + DigitValue(str[k]))
    ELSE acc

RECURSIVE SkipWhiteSpace(_, _)
SkipWhiteSpace(str, k) ==
    IF k <= Len(str) /\ str[k] \in WhiteSpace THEN SkipWhiteSpace(str, k + 1) ELSE k

\* parseInt(str, 10): leading white space is skipped, a sign is read, then
\* the longest prefix of digits; NaN when there is no digit
ParseInt(str) ==
    LET k == SkipWhiteSpace(str, 1)
        signed == k <= Len(str) /\ str[k] \in {"+", "-"}
        d == IF signed THEN k + 1 ELSE k
    IN  IF d <= Len(str) /\ str[d] \in Digits
        THEN Number((IF signed /\ str[k] = "-" THEN -1 ELSE 1) * DecimalPrefix(str, d, 0))
        ELSE NaN

(* ------------------------- entries-list parser ------------------------- *)
\* the type field of a collection's entry
Str80000000 == <<"8", "0", "0", "0", "0", "0", "0", "0">>

\* RemarkableClient.ts:66-75, parseEntryLine
parseEntryLine(line) ==
    LET fields == Split(line, ":")
        typeStr == At(fields, 2)
    IN  [hash |-> At(fields, 1),
         type |-> IF typeStr = Str80000000 THEN 80000000 ELSE 0,
         id |-> At(fields, 3),
         subfiles |-> ParseInt(At(fields, 4)),
         size |-> ParseInt(At(fields, 5))]

\* fields an entry record can carry
HashFields == {<<"a">>, <<"b", "c">>}

TypeFields ==
    {Str80000000, <<"0">>, <<"8">>, Str80000000 \o <<"0">>, <<>>, <<"x">>}

IdFields == {<<"d">>, <<"e", ".", "r", "m">>}

CountFields == {<<"0">>, <<"2">>, <<"x">>}

SizeFields == {<<"7">>, <<"1", "2">>}

\* the entry record line hash:type:id:subfileCount:size
EntryLine(hash, type, id, count, size) ==
    hash \o <<":">> \o type \o <<":">> \o id \o <<":">> \o count \o <<":">> \o size

EntryLines ==
    {EntryLine(h, t, i, c, z) :
        h \in HashFields, t \in TypeFields, i \in IdFields,
        c \in CountFields, z \in SizeFields}

\* parseEntryLine is called on one entry record line
CallParseEntryLine ==
    /\ ~result.done
    /\ result' = [done |-> TRUE, entry |-> parseEntryLine(input)]
    /\ UNCHANGED <<input, pluginVars, engineVars, kind, outputs, revoked, clientVars>>

InitLine == InitSyncIdle /\ InitClientIdle /\ input \in EntryLines /\ result = NoResult

SpecLine == InitLine /\ [][CallParseEntryLine]_vars

\* the entries of the lines from position k on: lines.slice(k - 1).map(parseEntryLine)
EntriesFrom(lines, k) ==
    [j \in 1..(IF Len(lines) >= k THEN Len(lines) - k + 1 ELSE 0) |->
        parseEntryLine(lines[j + k - 1])]

\* what a call of parseEntriesText ends with: threw names the error thrown
\* ("none": the value is returned); id and totalSize are absent (undefined)
\* in a schema-3 value
EntriesFile(version, entries, id, totalSize) ==
    [threw |-> "none", schemaVersion |-> version, entries |-> entries,
     id |-> id, totalSize |-> totalSize]

ParseThrew(error) ==
    [threw |-> error, schemaVersion |-> 0, entries |-> <<>>,
     id |-> Undefined, totalSize |-> NaN]

\* RemarkableClient.ts:43-64, parseEntriesText
parseEntriesText(raw) ==
    LET lines == Split(SliceOffLast(raw), "\n")
        version == ParseInt(lines[1])
    IN  IF version = Number(3)
        THEN EntriesFile(3, EntriesFrom(lines, 2), Undefined, NaN)
        ELSE IF version = Number(4)
        THEN LET infoLine == At(lines, 2)
                 info == Split(infoLine, ":")
             IN  IF infoLine = Undefined
                 THEN ParseThrew("TypeError")
                 ELSE EntriesFile(4, EntriesFrom(lines, 3), At(info, 2),
                                  ParseInt(At(info, 4)))
        ELSE ParseThrew("Unsupported schema version")

\* atoms an entries-list text is put together from: version lines, line
\* breaks, an info record, entry records, other text
MaxAtoms == 5

InfoLine == <<"_", ":", "t", ":", "_", ":", "9">>

TextAtoms ==
    {<<"3">>, <<"4">>, <<"5">>, <<"x">>, <<"\n">>, InfoLine,
     EntryLine(<<"a">>, Str80000000, <<"d">>, <<"0">>, <<"1", "2">>),
     EntryLine(<<"b", "c">>, <<"0">>, <<"e", ".", "r", "m">>, <<"2">>, <<"7">>)}

RECURSIVE Concat(_)
\* the text made of a sequence of atoms
Concat(atoms) == IF atoms = <<>> THEN <<>> ELSE Head(atoms) \o Concat(Tail(atoms))

Texts == {Concat(atoms) : atoms \in UNION {[1..n -> TextAtoms] : n \in 0..MaxAtoms}}

\* getEntries hands the response text to parseEntriesText
\* (RemarkableClient.ts:116-119)
CallParseEntriesText ==
    /\ ~result.done
    /\ result' = [done |-> TRUE, file |-> parseEntriesText(input)]
    /\ UNCHANGED <<input, pluginVars, engineVars, kind, outputs, revoked, clientVars>>

InitEntries == InitSyncIdle /\ InitClientIdle /\ input \in Texts /\ result = NoResult

SpecEntries == InitEntries /\ [][CallParseEntriesText]_vars

(* ------------------------------ page order ----------------------------- *)
\* UTF-16 code units of the characters of ids and file names
CharCode(c) ==
    CASE c = "-" -> 45 [] c = "." -> 46 [] c = "/" -> 47
      [] c \in Digits -> 48 + DigitValue(c)
      [] c = "a" -> 97 [] c = "b" -> 98 [] c = "c" -> 99 [] c = "d" -> 100
      [] c = "m" -> 109 [] c = "p" -> 112 [] c = "r" -> 114

RECURSIVE StrCompare(_, _)
\* the order of two strings by code units: -1, 0 or 1; this is the order of
\* Array.prototype.sort() without comparator and, on lower-case letters and
\* digits, of localeCompare
StrCompare(x, y) ==
    IF x = <<>> THEN (IF y = <<>> THEN 0 ELSE -1)
    ELSE IF y = <<>> THEN 1
    ELSE IF CharCode(Head(x)) < CharCode(Head(y)) THEN -1
    ELSE IF CharCode(Head(x)) > CharCode(Head(y)) THEN 1
    ELSE StrCompare(Tail(x), Tail(y))

\* an element is put behind the elements that do not come after it
InsertSorted(sorted, x) ==
    LET n == Cardinality({k \in 1..Len(sorted) : StrCompare(sorted[k].key, x.key) <= 0})
    IN  SubSeq(sorted, 1, n) \o <<x>> \o SubSeq(sorted, n + 1, Len(sorted))

RECURSIVE SortByKey(_)
\* Array.prototype.sort, which is stable, on elements [key, val] by key
SortByKey(arr) ==
    IF arr = <<>> THEN <<>>
    ELSE InsertSorted(SortByKey(SubSeq(arr, 1, Len(arr) - 1)), arr[Len(arr)])

\* String.prototype.endsWith
EndsWith(str, suffix) ==
    /\ Len(str) >= Len(suffix)
    /\ SubSeq(str, Len(str) - Len(suffix) + 1, Len(str)) = suffix

\* String.prototype.replace(pattern, "") for a string pattern: the first
\* occurrence is removed
RemoveFirst(str, pattern) ==
    LET at == {k \in 1..(Len(str) - Len(pattern) + 1) :
                  SubSeq(str, k, k + Len(pattern) - 1) = pattern}
    IN  IF at = {} THEN str
        ELSE LET k == CHOOSE k \in at : \A j \in at : k <= j
             IN  SubSeq(str, 1, k - 1) \o SubSeq(str, k + Len(pattern), Len(str))

DotRm == <<".", "r", "m">>

RECURSIVE FilterFrom(_, _, _)
\* Array.prototype.filter from position k on, keep being the elements for
\* which the callback holds
FilterFrom(arr, keep, k) ==
    IF k > Len(arr) THEN <<>>
    ELSE (IF arr[k] \in keep THEN <<arr[k]>> ELSE <<>>) \o FilterFrom(arr, keep, k + 1)

Filter(arr, keep) == FilterFrom(arr, keep, 1)

\* SyncEngine.ts:320-324, the page id a '.rm' file name stands for
PageIdOfFile(id) ==
    LET parts == Split(id, "/")
    IN  RemoveFirst(parts[Len(parts)], DotRm)

getPageOrderIndexFirst(content, fileEntries) ==
    IF Len(content.cPages) > 0
    THEN LET sorted == SortByKey([k \in 1..Len(content.cPages) |->
                          [key |-> content.cPages[k].idx, val |-> content.cPages[k].id]])
         IN  [k \in 1..Len(sorted) |-> sorted[k].val]
    ELSE content.pages

\* SyncEngine.ts:307-326, getPageOrder.  content.pages is a list of ids,
\* content.cPages a list of [id, idx] (empty when cPages or cPages.pages
\* is absent), fileEntries the ids of the document's sub-entries.
getPageOrder(content, fileEntries) ==
    IF Len(content.pages) > 0 THEN content.pages
    ELSE IF Len(content.cPages) > 0
    THEN LET sorted == SortByKey([k \in 1..Len(content.cPages) |->
                          [key |-> content.cPages[k].idx, val |-> content.cPages[k].id]])
         IN  [k \in 1..Len(sorted) |-> sorted[k].val]
    ELSE LET rm == {k \in 1..Len(fileEntries) : EndsWith(fileEntries[k], DotRm)}
             files == Filter(fileEntries, {fileEntries[k] : k \in rm})
             sorted == SortByKey([k \in 1..Len(files) |->
                          [key |-> PageIdOfFile(files[k]), val |-> PageIdOfFile(files[k])]])
         IN  [k \in 1..Len(sorted) |-> sorted[k].val]

\* pages of a document, index values, sub-entries
MaxPages == 2

PageIds == {<<"p", "1">>, <<"a", "-", "b">>}

IndexValues == {<<"b", "a">>, <<"b", "b">>, <<"c">>}

FileIds ==
    {<<"d", "/">> \o id \o DotRm : id \in PageIds}
    \cup {<<"d", ".", "c">>, <<"p", "1", ".", "r", "m">>}

SeqsUpTo(S, n) == UNION {[1..k -> S] : k \in 0..n}

PageOrderInputs ==
    [content : [pages : SeqsUpTo(PageIds, MaxPages),
                cPages : SeqsUpTo([id : PageIds, idx : IndexValues], MaxPages)],
     fileEntries : SeqsUpTo(FileIds, MaxPages)]

\* syncDocument calls getPageOrder (SyncEngine.ts:223)
CallGetPageOrder ==
    /\ ~result.done
    /\ result' = [done |-> TRUE,
                  pageOrder |-> getPageOrder(input.content, input.fileEntries)]
    /\ UNCHANGED <<input, pluginVars, engineVars, kind, outputs, revoked, clientVars>>

InitPages ==
    InitSyncIdle /\ InitClientIdle /\ input \in PageOrderInputs /\ result = NoResult

SpecPages == InitPages /\ [][CallGetPageOrder]_vars

(* ------------------------------ vault path ----------------------------- *)
\* ids of collections; a parent is a collection id, "" (the root), "trash",
\* or the id of an item that is not in the list
FolderIds == {"f1", "f2", "f3"}

ParentValues == FolderIds \cup {"", "trash", "gone"}

\* the flat item lists: each listed collection with its parent
ItemLists == UNION {[S -> ParentValues] : S \in SUBSET FolderIds}

\* iterations of the walk that are followed
MaxPathParts == 4

\* SyncEngine.ts:335, the loop condition
WalkOn(currentParent) ==
    currentParent # "" /\ currentParent # "trash"

\* SyncEngine.ts:336-339, one iteration with the parent found: its name
\* goes to the front of the path and the walk moves to its parent
WalkStep ==
    /\ ~result.done
    /\ WalkOn(result.currentParent)
    /\ result.currentParent \in DOMAIN input.allItems
    /\ Len(result.pathParts) < MaxPathParts
    /\ result' = [result EXCEPT
                     !.pathParts = <<result.currentParent>> \o @,
                     !.currentParent = input.allItems[result.currentParent]]
    /\ UNCHANGED <<input, pluginVars, engineVars, kind, outputs, revoked, clientVars>>

\* SyncEngine.ts:335, 337, 342-346: the loop ends at the root, at the trash
\* or at a parent that is not listed, and the path is returned
WalkReturn ==
    /\ ~result.done
    /\ \/ ~WalkOn(result.currentParent)
       \/ result.currentParent \notin DOMAIN input.allItems
    /\ result' = [result EXCEPT !.done = TRUE]
    /\ UNCHANGED <<input, pluginVars, engineVars, kind, outputs, revoked, clientVars>>

\* SyncEngine.ts:332-333, a call of getVaultPath(doc, allItems)
InitPath ==
    /\ InitSyncIdle
    /\ InitClientIdle
    /\ input \in [parent : ParentValues, allItems : ItemLists]
    /\ result = [done |-> FALSE, pathParts |-> <<>>, currentParent |-> input.parent]

NextPath == WalkStep \/ WalkReturn

SpecPath == InitPath /\ [][NextPath]_vars

(* ------------------------------ page blobs ----------------------------- *)
\* constants.ts: the two headers of a page blob and their length in bytes
HEADER_V3_OLD ==
    << "r", "e", "M", "a", "r", "k", "a", "b", "l", "e", " ",
       "l", "i", "n", "e", "s", " ", "w", "i", "t", "h", " ",
       "s", "e", "l", "e", "c", "t", "i", "o", "n", "s", " ",
       "a", "n", "d", " ", "l", "a", "y", "e", "r", "s" >>

HEADER_VERSIONED ==
    << "r", "e", "M", "a", "r", "k", "a", "b", "l", "e", " ",
       ".", "l", "i", "n", "e", "s", " ", "f", "i", "l", "e",
       ",", " ", "v", "e", "r", "s", "i", "o", "n", "=" >>

HEADER_LENGTH == 43

\* Uint8Array.prototype.slice(0, n) and String.prototype.slice(0, n)
SliceTo(str, n) == SubSeq(str, 1, IF n < Len(str) THEN n ELSE Len(str))

\* String.prototype.startsWith
StartsWith(str, prefix) == SliceTo(str, Len(prefix)) = prefix

\* String.prototype.charAt: the empty string beyond the end
CharAt(str, k) == IF k < Len(str) THEN <<str[k + 1]>> ELSE <<>>

\* RmParser.ts:4-39, parseRmFile on the bytes of a blob, one character a
\* byte.  The result is the version of the decoded page, or an RmParseError;
\* the bodies of the blobs of the model are well-formed, so parseV6File and
\* parsePageData return.
parseRmFile(data) ==
    LET headerStr == SliceTo(data, HEADER_LENGTH)
        versionChar == CharAt(headerStr, Len(HEADER_VERSIONED))
        version == IF StartsWith(headerStr, HEADER_VERSIONED) THEN ParseInt(versionChar)
                   ELSE IF headerStr = HEADER_V3_OLD THEN Number(3)
                   ELSE NaN
    IN  IF StartsWith(headerStr, HEADER_VERSIONED) /\ version.nan
        THEN [threw |-> TRUE, version |-> 0]
        ELSE IF ~StartsWith(headerStr, HEADER_VERSIONED) /\ headerStr # HEADER_V3_OLD
        THEN [threw |-> TRUE, version |-> 0]
        ELSE IF version.val = 6 THEN [threw |-> FALSE, version |-> 6]
        ELSE IF version.val # 3 /\ version.val # 5
        THEN [threw |-> TRUE, version |-> 0]
        ELSE [threw |-> FALSE, version |-> version.val]

\* the bytes after the version character of a versioned header, and a body
HeaderPadding == [k \in 1..(HEADER_LENGTH - Len(HEADER_VERSIONED) - 1) |-> " "]

PageBody == <<"1", "0">>

VersionChars == {"3", "5", "6", "4", "0", " ", "x"}

\* blobs of pages: versioned and legacy headers with a body, a header with
\* no version character, a legacy header cut short or with another last
\* byte, a versioned prefix with another first byte, and the empty blob
PageBlobs ==
    {HEADER_VERSIONED \o <<c>> \o HeaderPadding \o PageBody : c \in VersionChars}
    \cup {HEADER_V3_OLD \o PageBody,
          HEADER_VERSIONED,
          SliceTo(HEADER_V3_OLD, HEADER_LENGTH - 1),
          SliceTo(HEADER_V3_OLD, HEADER_LENGTH - 1) \o <<"x">> \o PageBody,
          <<"x">> \o Tail(HEADER_VERSIONED) \o <<"5">> \o HeaderPadding \o PageBody,
          <<>>}

\* a page of the page order: whether the document has a '.rm' sub-entry for
\* it, and the blob of that entry
PageEntries == {[rm |-> FALSE, data |-> <<>>]} \cup [rm : {TRUE}, data : PageBlobs]

OnPageErrorAborts(r) == [r EXCEPT !.done = TRUE]

\* SyncEngine.ts:238-240, the catch of the page loop: the page is skipped
OnPageError(r) == [r EXCEPT !.k = @ + 1]

\* SyncEngine.ts:227-241, one iteration of the page loop: pages without a
\* '.rm' entry are passed over; the blob is fetched, kept as raw file and
\* decoded, and a failed fetch or decoding is caught
PageStep ==
    /\ ~result.done
    /\ result.k <= Len(input.pageEntries)
    /\ LET page == input.pageEntries[result.k]
       IN  IF ~page.rm THEN result' = [result EXCEPT !.k = @ + 1]
           ELSE \E fetched \in BOOLEAN :
                   IF ~fetched THEN result' = OnPageError(result)
                   ELSE LET kept == [result EXCEPT !.rawRmFiles = Append(@, result.k)]
                            parsed == parseRmFile(page.data)
                        IN  IF parsed.threw THEN result' = OnPageError(kept)
                            ELSE result' = [kept EXCEPT
                                     !.pages = Append(@, [id |-> result.k,
                                                          version |-> parsed.version]),
                                     !.k = @ + 1]
    /\ UNCHANGED <<input, pluginVars, engineVars, kind, outputs, revoked, clientVars>>

\* SyncEngine.ts:243-298, after the page loop: the document's files are
\* written unless there is nothing to write (lines 264-266); a failing
\* step (folder, PDF generation, a write) leaves syncDocument by exception
WriteDocument ==
    /\ ~result.done
    /\ result.k > Len(input.pageEntries)
    /\ LET pdfBytes == input.basePdf \/ Len(result.pages) > 0
       IN  \/ result' = [result EXCEPT !.done = TRUE, !.failed = TRUE]
           \/ result' = [result EXCEPT
                            !.done = TRUE,
                            !.written = pdfBytes \/ input.baseEpub
                                        \/ Len(result.rawRmFiles) > 0]
    /\ UNCHANGED <<input, pluginVars, engineVars, kind, outputs, revoked, clientVars>>

\* SyncEngine.ts:223-225, syncDocument before the page loop
InitDoc ==
    /\ InitSyncIdle
    /\ InitClientIdle
    /\ input \in [pageEntries : SeqsUpTo(PageEntries, MaxPages),
                  basePdf : BOOLEAN, baseEpub : BOOLEAN]
    /\ result = [done |-> FALSE, k |-> 1, pages |-> <<>>, rawRmFiles |-> <<>>,
                 written |-> FALSE, failed |-> FALSE]

NextDoc == PageStep \/ WriteDocument

SpecDoc == InitDoc /\ [][NextDoc]_vars

(* --------------------------- page data, v3 and v5 ---------------------- *)
\* DataView.getUint8: the byte at an offset
getUint8(view, offset) == view[offset + 1]

\* DataView.getUint32(offset, true): four bytes, little-endian.  getFloat32
\* reads the same four bytes; the model keeps a float as its 32-bit word.
getUint32(view, offset) ==
    view[offset + 1] + 256 * view[offset + 2]
    + 65536 * view[offset + 3] + 16777216 * view[offset + 4]

\* a DataView read of n bytes at an offset raises RangeError beyond the end
InView(view, offset, n) == offset + n <= Len(view)

RECURSIVE SegmentsFrom(_, _, _, _)
\* RmParser.ts:107-116, the segment loop of parseStroke with n segments to
\* go: six words a segment
SegmentsFrom(view, offset, n, segments) ==
    IF n = 0 THEN [threw |-> FALSE, segments |-> segments, offset |-> offset]
    ELSE IF ~InView(view, offset, 24)
    THEN [threw |-> TRUE, segments |-> segments, offset |-> offset]
    ELSE SegmentsFrom(view, offset + 24, n - 1,
             Append(segments, [x |-> getUint32(view, offset),
                               y |-> getUint32(view, offset + 4),
                               speed |-> getUint32(view, offset + 8),
                               direction |-> getUint32(view, offset + 12),
                               width |-> getUint32(view, offset + 16),
                               pressure |-> getUint32(view, offset + 20)]))

parseStrokeNoUnk2(view, startOffset, version) ==
    LET count == startOffset + 16
    IN  IF ~InView(view, startOffset, 16) \/ ~InView(view, count, 4)
        THEN [threw |-> TRUE, offset |-> startOffset]
        ELSE LET read == SegmentsFrom(view, count + 4, getUint32(view, count), <<>>)
             IN  [threw |-> read.threw,
                  stroke |-> [pen |-> getUint32(view, startOffset),
                              color |-> getUint32(view, startOffset + 4),
                              width |-> getUint32(view, startOffset + 12),
                              segments |-> read.segments],
                  offset |-> read.offset]

\* RmParser.ts:84-121, parseStroke: pen, color, a skipped word, width, in
\* version 5 one more skipped word, the segment count, the segments
parseStroke(view, startOffset, version) ==
    LET count == startOffset + (IF version = 5 THEN 20 ELSE 16)
    IN  IF ~InView(view, startOffset, 16) \/ ~InView(view, count, 4)
        THEN [threw |-> TRUE, offset |-> startOffset]
        ELSE LET read == SegmentsFrom(view, count + 4, getUint32(view, count), <<>>)
             IN  [threw |-> read.threw,
                  stroke |-> [pen |-> getUint32(view, startOffset),
                              color |-> getUint32(view, startOffset + 4),
                              width |-> getUint32(view, startOffset + 12),
                              segments |-> read.segments],
                  offset |-> read.offset]

RECURSIVE StrokesFrom(_, _, _, _, _)
\* RmParser.ts:75-79, the stroke loop of parseLayer with n strokes to go
StrokesFrom(view, offset, version, n, strokes) ==
    IF n = 0 THEN [threw |-> FALSE, strokes |-> strokes, offset |-> offset]
    ELSE LET read == parseStroke(view, offset, version)
         IN  IF read.threw THEN [threw |-> TRUE, strokes |-> strokes, offset |-> offset]
             ELSE StrokesFrom(view, read.offset, version, n - 1,
                              Append(strokes, read.stroke))

\* RmParser.ts:63-82, parseLayer: the stroke count and the strokes
parseLayer(view, startOffset, version) ==
    IF ~InView(view, startOffset, 4) THEN [threw |-> TRUE, offset |-> startOffset]
    ELSE LET read == StrokesFrom(view, startOffset + 4, version,
                                 getUint32(view, startOffset), <<>>)
         IN  [threw |-> read.threw, layer |-> [strokes |-> read.strokes],
              offset |-> read.offset]

RECURSIVE LayersFrom(_, _, _, _, _)
\* RmParser.ts:54-58, the layer loop of parsePageData with n layers to go
LayersFrom(view, offset, version, n, layers) ==
    IF n = 0 THEN [threw |-> FALSE, layers |-> layers, offset |-> offset]
    ELSE LET read == parseLayer(view, offset, version)
         IN  IF read.threw THEN [threw |-> TRUE, layers |-> layers, offset |-> offset]
             ELSE LayersFrom(view, read.offset, version, n - 1,
                             Append(layers, read.layer))

\* RmParser.ts:41-61, parsePageData: the layer count is the first byte of a
\* four-byte page struct.  The model returns the layers with the offset
\* reached, or that a read beyond the buffer threw.
parsePageData(view, startOffset, version) ==
    IF ~InView(view, startOffset, 1) THEN [threw |-> TRUE, layers |-> <<>>, offset |-> startOffset]
    ELSE LayersFrom(view, startOffset + 4, version, getUint8(view, startOffset), <<>>)

\* layers of a page
MaxLayers == 2

\* a layer as it is declared: the segment counts of its strokes
LayerShapes == {<<>>, <<0>>, <<1>>, <<2, 1>>, <<2, 2>>, <<0, 3>>}

\* a page as it is declared: its layers
PageShapes == SeqsUpTo(LayerShapes, MaxLayers)

RECURSIVE Flatten(_)
\* the concatenation of a list of byte strings
Flatten(parts) == IF parts = <<>> THEN <<>> ELSE Head(parts) \o Flatten(Tail(parts))

\* a 32-bit word, little-endian
Word(n) == <<n % 256, (n \div 256) % 256, (n \div 65536) % 256, n \div 16777216>>

\* the bytes of a page of a given shape: stroke s of layer l has pen s and
\* color l, and its segment i has x = i and pressure = 256 + i
SegmentBytes(i) ==
    Word(i) \o Word(0) \o Word(0) \o Word(0) \o Word(0) \o Word(256 + i)

StrokeBytes(version, l, s, nSegments) ==
    Word(s) \o Word(l) \o Word(0) \o Word(2)
    \o (IF version = 5 THEN Word(0) ELSE <<>>)
    \o Word(nSegments) \o Flatten([i \in 1..nSegments |-> SegmentBytes(i)])

LayerBytes(version, l, strokes) ==
    Word(Len(strokes))
    \o Flatten([s \in 1..Len(strokes) |-> StrokeBytes(version, l, s, strokes[s])])

PageBytes(version, shape) ==
    <<Len(shape), 0, 0, 0>>
    \o Flatten([l \in 1..Len(shape) |-> LayerBytes(version, l, shape[l])])

\* the bytes of the header, which parsePageData does not read
HeaderBytes == [k \in 1..HEADER_LENGTH |-> 0]

\* a buffer ends with the page, one byte early, or one byte late
BufferEnds == {"exact", "cut", "extra"}

PageBuffer(in) ==
    LET whole == HeaderBytes \o PageBytes(in.version, in.shape)
    IN  CASE in.ends = "exact" -> whole
          [] in.ends = "cut" -> SubSeq(whole, 1, Len(whole) - 1)
          [] in.ends = "extra" -> whole \o <<7>>

\* RmParser.ts:35-36, parseRmFile calls parsePageData behind the header
CallParsePageData ==
    /\ ~result.done
    /\ result' = [done |-> TRUE,
                  page |-> parsePageData(PageBuffer(input), HEADER_LENGTH, input.version)]
    /\ UNCHANGED <<input, pluginVars, engineVars, kind, outputs, revoked, clientVars>>

InitPage ==
    /\ InitSyncIdle
    /\ InitClientIdle
    /\ input \in [version : {3, 5}, shape : PageShapes, ends : BufferEnds]
    /\ result = NoResult

SpecPage == InitPage /\ [][CallParsePageData]_vars

(* ------------------------------ page data, v6 -------------------------- *)
\* RmParser.ts:134-143, tag types, block types and item types
TAG_ID == 15

TAG_LENGTH4 == 12

TAG_BYTE8 == 8

TAG_BYTE4 == 4

TAG_BYTE1 == 1

BLOCK_TYPE_GLYPH_ITEM == 3

BLOCK_TYPE_LINE_ITEM == 5

GLYPH_ITEM_TYPE == 1

LINE_ITEM_TYPE == 3

\* what an index beyond the end of a Uint8Array gives
UndefinedByte == -1

RECURSIVE VaruintFrom(_, _, _, _)
\* RmParser.ts:156-166, the loop of readVaruint: seven bits a byte, lowest
\* first, until a byte without the high bit or the end of the buffer
VaruintFrom(bytes, pos, scale, value) ==
    IF pos >= Len(bytes) THEN [val |-> value, pos |-> pos]
    ELSE LET b == bytes[pos + 1]
         IN  IF b < 128 THEN [val |-> value + b * scale, pos |-> pos + 1]
             ELSE VaruintFrom(bytes, pos + 1, scale * 128, value + (b % 128) * scale)

readVaruint(bytes, pos) == VaruintFrom(bytes, pos, 1, 0)

\* RmParser.ts:168-170, readUint8 does not test the position
readUint8(bytes, pos) ==
    [val |-> IF pos < Len(bytes) THEN bytes[pos + 1] ELSE UndefinedByte, pos |-> pos + 1]

\* RmParser.ts:172-194, readUint16, readUint32, readFloat32 and readFloat64
\* read through the DataView, which raises RangeError beyond the end and
\* then leaves the position
CanRead(bytes, pos, n) == pos + n <= Len(bytes)

\* the bytes of a float as the model keeps it
FloatAt(bytes, pos, n) == SubSeq(bytes, pos + 1, pos + n)

\* RmParser.ts:206-209, readTag
readTag(bytes, pos) ==
    LET x == readVaruint(bytes, pos)
    IN  [index |-> x.val \div 16, tagType |-> x.val % 16, pos |-> x.pos]

\* RmParser.ts:211-222, checkTag: the position moves only over a tag that is
\* the expected one
checkTag(bytes, pos, expectedIndex, expectedType) ==
    LET tag == readTag(bytes, pos)
    IN  IF tag.index = expectedIndex /\ tag.tagType = expectedType
        THEN [ok |-> TRUE, pos |-> tag.pos]
        ELSE [ok |-> FALSE, pos |-> pos]

expectTagLenient(bytes, pos, expectedIndex, expectedType) ==
    LET tag == checkTag(bytes, pos, expectedIndex, expectedType)
    IN  [threw |-> FALSE, pos |-> tag.pos]

\* RmParser.ts:224-233, expectTag: RmParseError for another tag
expectTag(bytes, pos, expectedIndex, expectedType) ==
    LET tag == checkTag(bytes, pos, expectedIndex, expectedType)
    IN  [threw |-> ~tag.ok, pos |-> tag.pos]

\* the value of an expression, for use where it is read more than once
One(values) == CHOOSE v \in values : TRUE

\* RmParser.ts:200-204, 235-238, readTaggedId: a tag, a byte and a varuint
readTaggedId(bytes, pos, index) ==
    One({IF tag.threw THEN [threw |-> TRUE, pos |-> pos, val |-> 0]
         ELSE One({[threw |-> FALSE, pos |-> part2.pos, val |-> part2.val] :
                      part2 \in {readVaruint(bytes, tag.pos + 1)}}) :
            tag \in {expectTag(bytes, pos, index, TAG_ID)}})

\* RmParser.ts:240-243, 260-263, readTaggedInt and readSubblockHeader: a
\* tag and a 32-bit integer
readTagged32(bytes, pos, index, tagType) ==
    One({IF tag.threw \/ ~CanRead(bytes, tag.pos, 4)
         THEN [threw |-> TRUE, pos |-> tag.pos, val |-> 0]
         ELSE [threw |-> FALSE, pos |-> tag.pos + 4, val |-> getUint32(bytes, tag.pos)] :
            tag \in {expectTag(bytes, pos, index, tagType)}})

readTaggedInt(bytes, pos, index) == readTagged32(bytes, pos, index, TAG_BYTE4)

readSubblockHeader(bytes, pos, index) == readTagged32(bytes, pos, index, TAG_LENGTH4)

\* RmParser.ts:245-253, readTaggedFloat and readTaggedDouble: a tag and a
\* float of 4 or 8 bytes
readTaggedFloat(bytes, pos, index) ==
    One({IF tag.threw \/ ~CanRead(bytes, tag.pos, 4)
         THEN [threw |-> TRUE, pos |-> tag.pos, val |-> <<>>]
         ELSE [threw |-> FALSE, pos |-> tag.pos + 4, val |-> FloatAt(bytes, tag.pos, 4)] :
            tag \in {expectTag(bytes, pos, index, TAG_BYTE4)}})

readTaggedDouble(bytes, pos, index) ==
    One({IF tag.threw \/ ~CanRead(bytes, tag.pos, 8)
         THEN [threw |-> TRUE, pos |-> tag.pos, val |-> <<>>]
         ELSE [threw |-> FALSE, pos |-> tag.pos + 8, val |-> FloatAt(bytes, tag.pos, 8)] :
            tag \in {expectTag(bytes, pos, index, TAG_BYTE8)}})

\* RmParser.ts:405-410, a field that may be absent: its tag and 32 bits
skipOptional32(bytes, pos, index) ==
    One({IF ~tag.ok THEN [threw |-> FALSE, pos |-> pos, val |-> 0]
         ELSE IF ~CanRead(bytes, tag.pos, 4) THEN [threw |-> TRUE, pos |-> tag.pos, val |-> 0]
         ELSE [threw |-> FALSE, pos |-> tag.pos + 4, val |-> getUint32(bytes, tag.pos)] :
            tag \in {checkTag(bytes, pos, index, TAG_BYTE4)}})

\* one read of a tagged field
ReadField(bytes, pos, field) ==
    CASE field.read = "id" -> readTaggedId(bytes, pos, field.index)
      [] field.read = "int" -> readTaggedInt(bytes, pos, field.index)
      [] field.read = "float" -> readTaggedFloat(bytes, pos, field.index)
      [] field.read = "double" -> readTaggedDouble(bytes, pos, field.index)
      [] field.read = "subblock" -> readSubblockHeader(bytes, pos, field.index)
      [] field.read = "optional" -> skipOptional32(bytes, pos, field.index)

RECURSIVE ReadFields(_, _, _, _)
\* reads of tagged fields one after the other, up to the first that throws
ReadFields(bytes, pos, fields, vals) ==
    IF fields = <<>> THEN [threw |-> FALSE, pos |-> pos, vals |-> vals]
    ELSE One({IF r.threw THEN [threw |-> TRUE, pos |-> r.pos, vals |-> vals]
              ELSE ReadFields(bytes, r.pos, Tail(fields), Append(vals, r.val)) :
                 r \in {ReadField(bytes, pos, Head(fields))}})

\* what a block parser hands back: an item, null, or an exception
Thrown == [threw |-> TRUE, item |-> <<>>]

Null == [threw |-> FALSE, item |-> <<>>]

Item(item) == [threw |-> FALSE, item |-> <<item>>]

\* RmParser.ts:322-326, 393-397, the head of a scene item block: four ids
\* and the deleted length
ItemHeadFields ==
    <<[read |-> "id", index |-> 1], [read |-> "id", index |-> 2],
      [read |-> "id", index |-> 3], [read |-> "id", index |-> 4],
      [read |-> "int", index |-> 5]>>

\* RmParser.ts:341-348, tool, color, thickness scale, starting length and
\* the header of the points
LineFields ==
    <<[read |-> "int", index |-> 1], [read |-> "int", index |-> 2],
      [read |-> "double", index |-> 3], [read |-> "float", index |-> 4],
      [read |-> "subblock", index |-> 5]>>

\* RmParser.ts:405-414, start and length if present, color and the header
\* of the text
GlyphFields ==
    <<[read |-> "optional", index |-> 2], [read |-> "optional", index |-> 3],
      [read |-> "int", index |-> 4], [read |-> "subblock", index |-> 5]>>

RECURSIVE PointsFrom(_, _, _, _, _)
\* RmParser.ts:353-376, the point loop with n points to go: version 2 has
\* two floats, two 16-bit integers and two bytes, version 1 six floats
PointsFrom(bytes, pos, pointVersion, n, segments) ==
    IF n = 0 THEN [threw |-> FALSE, segments |-> segments]
    ELSE IF pointVersion = 2
    THEN IF ~CanRead(bytes, pos, 12) THEN [threw |-> TRUE, segments |-> segments]
         ELSE PointsFrom(bytes, pos + 14, pointVersion, n - 1,
                  Append(segments, [x |-> FloatAt(bytes, pos, 4),
                                    y |-> FloatAt(bytes, pos + 4, 4),
                                    pressure |-> readUint8(bytes, pos + 13).val]))
    ELSE IF ~CanRead(bytes, pos, 24) THEN [threw |-> TRUE, segments |-> segments]
         ELSE PointsFrom(bytes, pos + 24, pointVersion, n - 1,
                  Append(segments, [x |-> FloatAt(bytes, pos, 4),
                                    y |-> FloatAt(bytes, pos + 4, 4),
                                    pressure |-> FloatAt(bytes, pos + 20, 4)]))

\* RmParser.ts:341-384, the line data behind the item type
parseLineData(bytes, pos, blockVersion) ==
    LET pointVersion == IF blockVersion >= 2 THEN 2 ELSE 1
        pointSize == IF pointVersion = 2 THEN 14 ELSE 24
    IN  One({IF line.threw THEN Thrown
             ELSE One({IF points.threw THEN Thrown
                       ELSE Item([pen |-> line.vals[1], color |-> line.vals[2],
                                  width |-> line.vals[3], segments |-> points.segments]) :
                          points \in {PointsFrom(bytes, line.pos, pointVersion,
                                                 line.vals[5] \div pointSize, <<>>)}}) :
                line \in {ReadFields(bytes, pos, LineFields, <<>>)}})

\* RmParser.ts:330-339, 399-408, the value of a scene item: null without
\* the tag of the value, then its length and the item type
readItemType(bytes, pos) ==
    One({IF ~value.ok THEN [threw |-> FALSE, null |-> TRUE, itemType |-> 0, pos |-> pos]
         ELSE IF ~CanRead(bytes, value.pos, 4)
         THEN [threw |-> TRUE, null |-> FALSE, itemType |-> 0, pos |-> pos]
         ELSE [threw |-> FALSE, null |-> FALSE,
               itemType |-> readUint8(bytes, value.pos + 4).val, pos |-> value.pos + 5] :
            value \in {checkTag(bytes, pos, 6, TAG_LENGTH4)}})

\* RmParser.ts:316-385, parseV6LineBlock; blockEnd is not read by it
parseV6LineBlock(bytes, pos, blockVersion) ==
    One({IF head.threw THEN Thrown
         ELSE IF head.vals[5] > 0 THEN Null
         ELSE One({IF value.threw THEN Thrown
                   ELSE IF value.null THEN Null
                   ELSE IF value.itemType # LINE_ITEM_TYPE THEN Null
                   ELSE parseLineData(bytes, value.pos, blockVersion) :
                      value \in {readItemType(bytes, head.pos)}}) :
            head \in {ReadFields(bytes, pos, ItemHeadFields, <<>>)}})

RECURSIVE RectsFrom(_, _, _, _)
\* RmParser.ts:431-437, the rectangle loop with n rectangles to go: four
\* doubles a rectangle
RectsFrom(bytes, pos, n, rects) ==
    IF n = 0 THEN [threw |-> FALSE, rects |-> rects]
    ELSE IF ~CanRead(bytes, pos, 32) THEN [threw |-> TRUE, rects |-> rects]
    ELSE RectsFrom(bytes, pos + 32, n - 1,
             Append(rects, [x |-> FloatAt(bytes, pos, 8), y |-> FloatAt(bytes, pos + 8, 8),
                            w |-> FloatAt(bytes, pos + 16, 8), h |-> FloatAt(bytes, pos + 24, 8)]))

\* RmParser.ts:416-422, the text: its length, a byte, and its bytes
readText(bytes, pos) ==
    One({[i \in 1..strLen.val |->
             One({IF b = UndefinedByte THEN 0 ELSE b :
                     b \in {readUint8(bytes, strLen.pos + i).val}})] :
            strLen \in {readVaruint(bytes, pos)}})

\* RmParser.ts:426-444, the rectangles behind the text: null without one
parseGlyphRects(bytes, pos, color, text) ==
    One({IF rectsSubLen.threw THEN Thrown
         ELSE One({One({IF rects.threw THEN Thrown
                        ELSE IF rects.rects = <<>> THEN Null
                        ELSE Item([color |-> color, text |-> text, rects |-> rects.rects]) :
                           rects \in {RectsFrom(bytes, numRects.pos, numRects.val, <<>>)}}) :
                      numRects \in {readVaruint(bytes, rectsSubLen.pos)}}) :
            rectsSubLen \in {readSubblockHeader(bytes, pos, 6)}})

\* RmParser.ts:401-444, the glyph data behind the item type
parseGlyphData(bytes, pos) ==
    One({IF glyph.threw THEN Thrown
         ELSE parseGlyphRects(bytes, glyph.pos + glyph.vals[4], glyph.vals[3],
                              readText(bytes, glyph.pos)) :
            glyph \in {ReadFields(bytes, pos, GlyphFields, <<>>)}})

\* RmParser.ts:387-445, parseV6GlyphBlock; blockEnd is not read by it
parseV6GlyphBlock(bytes, pos) ==
    One({IF head.threw THEN Thrown
         ELSE IF head.vals[5] > 0 THEN Null
         ELSE One({IF value.threw THEN Thrown
                   ELSE IF value.null THEN Null
                   ELSE IF value.itemType # GLYPH_ITEM_TYPE THEN Null
                   ELSE parseGlyphData(bytes, value.pos) :
                      value \in {readItemType(bytes, head.pos)}}) :
            head \in {ReadFields(bytes, pos, ItemHeadFields, <<>>)}})

\* a tag byte
Tag(index, tagType) == index * 16 + tagType

\* the head of a scene item: four ids and the deleted length
ItemHeadBytes(deletedLength) ==
    Flatten([i \in 1..4 |-> <<Tag(i, TAG_ID), 0, i>>])
    \o <<Tag(5, TAG_BYTE4)>> \o Word(deletedLength)

\* point i of a line, in the 14 bytes of point version 2
PointBytes(i) == Word(i) \o Word(2 * i) \o <<1, 0>> \o <<8, 0>> \o <<3, 100 + i>>

\* the value of a line item: tool, color, thickness, starting length, the
\* points, and a trailing timestamp id that the parser skips
LineValueBytes(pen, nPoints) ==
    <<LINE_ITEM_TYPE>>
    \o <<Tag(1, TAG_BYTE4)>> \o Word(pen)
    \o <<Tag(2, TAG_BYTE4)>> \o Word(0)
    \o <<Tag(3, TAG_BYTE8)>> \o <<0, 0, 0, 0, 0, 0, 0, 64>>
    \o <<Tag(4, TAG_BYTE4)>> \o Word(0)
    \o <<Tag(5, TAG_LENGTH4)>> \o Word(14 * nPoints)
    \o Flatten([i \in 1..nPoints |-> PointBytes(i)])
    \o <<Tag(6, TAG_ID), 0, 9>>

\* the value of a glyph item: start and length, color, the text, one
\* rectangle
GlyphValueBytes(color) ==
    <<GLYPH_ITEM_TYPE>>
    \o <<Tag(2, TAG_BYTE4)>> \o Word(0)
    \o <<Tag(3, TAG_BYTE4)>> \o Word(2)
    \o <<Tag(4, TAG_BYTE4)>> \o Word(color)
    \o <<Tag(5, TAG_LENGTH4)>> \o Word(4) \o <<2, 1, 104, 105>>
    \o <<Tag(6, TAG_LENGTH4)>> \o Word(33) \o <<1>>
    \o Flatten([i \in 1..4 |-> <<0, 0, 0, 0, 0, 0, i, 64>>])

\* the body of a well-formed block of a scene item
ItemBodyBytes(deletedLength, value) ==
    ItemHeadBytes(deletedLength) \o <<Tag(6, TAG_LENGTH4)>> \o Word(Len(value)) \o value

\* a block: the length of the body, four bytes with version and type, the body
BlockBytes(blockType, body) == Word(Len(body)) \o <<0, 1, 2, blockType>> \o body

\* blocks of a stream: line items and glyph items, well-formed, with the
\* byte at an offset of the body replaced by a zero tag, with the body and
\* its declared length cut to some bytes ("cut"), or with the body cut and
\* the declared length kept ("short"); a deleted line item; a block of
\* another type
BlockKinds ==
    [type : {"line"}, id : {1, 2}, damage : {"none"}, at : {0}]
    \cup [type : {"line"}, id : {1}, damage : {"tag"}, at : {17, 23, 47}]
    \cup [type : {"line"}, id : {1}, damage : {"cut"}, at : {17, 65}]
    \cup [type : {"line"}, id : {1}, damage : {"short"}, at : {65}]
    \cup [type : {"glyph"}, id : {1}, damage : {"none"}, at : {0}]
    \cup [type : {"glyph"}, id : {1}, damage : {"tag"}, at : {33}]
    \cup [type : {"glyph"}, id : {1}, damage : {"cut"}, at : {60}]
    \cup [type : {"line"}, id : {1}, damage : {"deleted"}, at : {0}]
    \cup [type : {"other"}, id : {1}, damage : {"none"}, at : {0}]

BlockOf(block) ==
    LET sound == CASE block.type = "line" ->
                        ItemBodyBytes(IF block.damage = "deleted" THEN 1 ELSE 0,
                                      LineValueBytes(block.id, block.id))
                   [] block.type = "glyph" -> ItemBodyBytes(0, GlyphValueBytes(block.id))
                   [] block.type = "other" -> <<1, 2, 3>>
        body == CASE block.damage = "tag" -> [sound EXCEPT ![block.at + 1] = 0]
                  [] block.damage = "cut" -> SubSeq(sound, 1, block.at)
                  [] OTHER -> sound
        whole == BlockBytes(CASE block.type = "line" -> BLOCK_TYPE_LINE_ITEM
                              [] block.type = "glyph" -> BLOCK_TYPE_GLYPH_ITEM
                              [] block.type = "other" -> 1,
                            body)
    IN  IF block.damage = "short" THEN SubSeq(whole, 1, 8 + block.at) ELSE whole

\* blocks of a stream
MaxBlocks == 3

\* bytes missing at the end of the file
FileCuts == {0, 4, 5}

\* the bytes of a page blob of format 6
V6Bytes(in) ==
    LET whole == HeaderBytes \o Flatten([k \in 1..Len(in.blocks) |-> BlockOf(in.blocks[k])])
    IN  SubSeq(whole, 1, Len(whole) - in.cut)

\* RmParser.ts:275-285, the scan goes on while the position is inside the
\* buffer, the block length can be read, and blockStart + 4 + blockLength
\* is inside the buffer
ScanGoesOn(bytes, pos) ==
    /\ pos < Len(bytes)
    /\ CanRead(bytes, pos, 4)
    /\ ~(pos + 4 + getUint32(bytes, pos) > Len(bytes))

\* RmParser.ts:276-309, one iteration of the scan: the frame is read, a
\* line item or glyph item is parsed and pushed, an exception of the
\* parser is caught, and the reader is put at the end of the block
ScanBlock ==
    /\ ~result.done
    /\ \E bytes \in {V6Bytes(input)} :
          LET blockStart == result.pos
              blockLength == getUint32(bytes, blockStart)
              currentVersion == readUint8(bytes, blockStart + 6).val
              blockType == readUint8(bytes, blockStart + 7).val
              dataStart == blockStart + 8
              blockEnd == dataStart + blockLength
          IN  /\ ScanGoesOn(bytes, blockStart)
              /\ \E parsed \in {IF blockType = BLOCK_TYPE_LINE_ITEM
                                THEN parseV6LineBlock(bytes, dataStart, currentVersion)
                                ELSE IF blockType = BLOCK_TYPE_GLYPH_ITEM
                                THEN parseV6GlyphBlock(bytes, dataStart)
                                ELSE Null} :
                    result' = [result EXCEPT
                        !.pos = blockEnd,
                        !.strokes = IF blockType = BLOCK_TYPE_LINE_ITEM
                                    THEN @ \o parsed.item ELSE @,
                        !.highlights = IF blockType = BLOCK_TYPE_GLYPH_ITEM
                                       THEN @ \o parsed.item ELSE @,
                        !.frames = Append(@, [blockStart |-> blockStart,
                                              blockLength |-> blockLength,
                                              blockType |-> blockType,
                                              threw |-> parsed.threw,
                                              item |-> parsed.item # <<>>])]
    /\ UNCHANGED <<input, pluginVars, engineVars, kind, outputs, revoked, clientVars>>

\* RmParser.ts:275, 281-285, 312: the scan ends and the page is returned
ScanEnd ==
    /\ ~result.done
    /\ \E bytes \in {V6Bytes(input)} : ~ScanGoesOn(bytes, result.pos)
    /\ result' = [result EXCEPT !.done = TRUE]
    /\ UNCHANGED <<input, pluginVars, engineVars, kind, outputs, revoked, clientVars>>

\* RmParser.ts:270-273, parseV6File on a blob
InitV6 ==
    /\ InitSyncIdle
    /\ InitClientIdle
    /\ input \in [blocks : SeqsUpTo(BlockKinds, MaxBlocks), cut : FileCuts]
    /\ result = [done |-> FALSE, pos |-> HEADER_LENGTH, strokes |-> <<>>,
                 highlights |-> <<>>, frames |-> <<>>]

NextV6 == ScanBlock \/ ScanEnd

SpecV6 == InitV6 /\ [][NextV6]_vars

(* ------------------------------ stroke rendering ----------------------- *)
\* constants.ts:22-40, the pen ids of the tablet, and one that is not known
PenIds == {0, 1, 2, 3, 4, 5, 6, 7, 8, 9, 12, 13, 14, 15, 16, 17, 18, 10}

\* constants.ts:43-75, getNormalizedPen
getNormalizedPen(penId) ==
    CASE penId \in {0, 12} -> "brush"
      [] penId \in {1, 14} -> "pencil"
      [] penId \in {2, 15} -> "ballpoint"
      [] penId \in {3, 16} -> "marker"
      [] penId \in {4, 17} -> "fineliner"
      [] penId \in {5, 18} -> "highlighter"
      [] penId = 6 -> "eraser"
      [] penId \in {7, 13} -> "mech_pencil"
      [] penId = 8 -> "erase_area"
      [] penId = 9 -> "calligraphy"
      [] OTHER -> "fineliner"

\* StrokeRenderer.ts:185-194, isPressureSensitive
isPressureSensitive(pen) ==
    pen \in {"ballpoint", "pencil", "mech_pencil", "brush", "calligraphy", "marker"}

\* StrokeRenderer.ts:126
SEGMENT_GROUP_SIZE == 5

\* Number.prototype.toFixed(1) on hundredths, in tenths
ToFixed1(hundredths) == (hundredths + 5) \div 10

\* a group that ends where the next one starts
GroupEndNoOverlap(i, n) ==
    IF i + SEGMENT_GROUP_SIZE < n THEN i + SEGMENT_GROUP_SIZE ELSE n

\* StrokeRenderer.ts:129, the end of the group that starts at segment i
GroupEnd(i, n) ==
    IF i + SEGMENT_GROUP_SIZE + 1 < n THEN i + SEGMENT_GROUP_SIZE + 1 ELSE n

RECURSIVE GroupsFrom(_, _)
\* StrokeRenderer.ts:128-143, the loop over the groups from segment i on
\* (i counts from 0); a group is the list of its segments, numbered from 1
GroupsFrom(i, n) ==
    IF ~(i < n - 1) THEN <<>>
    ELSE <<[k \in 1..(GroupEnd(i, n) - i) |-> i + k]>>
         \o GroupsFrom(i + SEGMENT_GROUP_SIZE, n)

\* StrokeRenderer.ts:110-144, renderVariableWidthStroke; widths are in
\* hundredths, the radius as it is printed in tenths
renderVariableWidthStroke(n, baseWidth) ==
    IF n < 2
    THEN [el |-> "circle", at |-> 1,
          r |-> ToFixed1(IF baseWidth \div 2 > 50 THEN baseWidth \div 2 ELSE 50)]
    ELSE [el |-> "g", groups |-> GroupsFrom(0, n)]

\* StrokeRenderer.ts:47-71, renderStroke: the SVG element of a stroke of n
\* segments, or null
renderStroke(stroke) ==
    LET pen == getNormalizedPen(stroke.pen)
    IN  IF stroke.n = 0 THEN [el |-> "null"]
        ELSE IF pen = "erase_area" THEN [el |-> "null"]
        ELSE IF pen = "highlighter" THEN [el |-> "polyline", points |-> stroke.n]
        ELSE IF isPressureSensitive(pen)
        THEN renderVariableWidthStroke(stroke.n, stroke.width)
        ELSE [el |-> "polyline", points |-> stroke.n]

\* PdfGenerator.ts:139-200, drawStroke: the path drawn on the PDF page for a
\* stroke of n segments, or nothing
drawStroke(stroke) ==
    LET pen == getNormalizedPen(stroke.pen)
    IN  IF stroke.n < 2 THEN [el |-> "null"]
        ELSE IF pen = "erase_area" THEN [el |-> "null"]
        ELSE [el |-> "path", points |-> stroke.n]

\* segments of a stroke
MaxPoints == 12

\* widths of strokes, in hundredths
StrokeWidths == {50, 100, 150, 200, 300}

\* StrokeRenderer.ts:31-32, renderPageToSvg renders a stroke
CallRenderStroke ==
    /\ result.svg = <<>>
    /\ result' = [result EXCEPT !.svg = <<renderStroke(input)>>]
    /\ UNCHANGED <<input, pluginVars, engineVars, kind, outputs, revoked, clientVars>>

\* PdfGenerator.ts:132-136, drawPage draws a stroke
CallDrawStroke ==
    /\ result.pdf = <<>>
    /\ result' = [result EXCEPT !.pdf = <<drawStroke(input)>>]
    /\ UNCHANGED <<input, pluginVars, engineVars, kind, outputs, revoked, clientVars>>

InitStroke ==
    /\ InitSyncIdle
    /\ InitClientIdle
    /\ input \in [pen : PenIds, n : 0..MaxPoints, width : StrokeWidths]
    /\ result = [svg |-> <<>>, pdf |-> <<>>]

NextStroke == CallRenderStroke \/ CallDrawStroke

SpecStroke == InitStroke /\ [][NextStroke]_vars

(* ------------------------------ page layout ---------------------------- *)
\* constants.ts:3-4, the native canvas
RM_WIDTH == 1404

RM_HEIGHT == 1872

\* PdfGenerator.ts:88
PADDING == 20

\* PdfGenerator.ts:28-29, the start value of the minima; the maxima start
\* at its negative
Infinity == 1000000

\* A scale is the fraction num / den of PDF_SCALE = 72 / RM_DPI
\* (constants.ts:8), and the page's sides are RM_WIDTH and RM_HEIGHT times
\* PDF_SCALE (constants.ts:11-12).
PDF_SCALE == [num |-> 1, den |-> 1]

\* Math.min of two positive fractions
MathMin(a, b) == IF a.num * b.den <= b.num * a.den THEN a ELSE b

\* the mutant's choice: the larger of the two
MathMax(a, b) == IF a.num * b.den >= b.num * a.den THEN a ELSE b

\* PdfGenerator.ts:35-36 and 54-55, a point under the transform
TransformX(t, x, y) == t.m11 * x + t.m12 * y + t.m13

TransformY(t, x, y) == t.m21 * x + t.m22 * y + t.m23

\* PdfGenerator.ts:46-51, the corners of a highlight rectangle
Corners(r) ==
    << <<r.x, r.y>>, <<r.x + r.w, r.y>>, <<r.x, r.y + r.h>>, <<r.x + r.w, r.y + r.h>> >>

RECURSIVE CornersFrom(_, _)
CornersFrom(rects, k) ==
    IF k > Len(rects) THEN <<>> ELSE Corners(rects[k]) \o CornersFrom(rects, k + 1)

RECURSIVE PointsOfPages(_, _)
\* PdfGenerator.ts:31-69, the points in the order the loops visit them: of
\* each page the segments of its strokes, then the corners of its highlights
PointsOfPages(pages, k) ==
    IF k > Len(pages) THEN <<>>
    ELSE pages[k].segments \o CornersFrom(pages[k].rects, 1) \o PointsOfPages(pages, k + 1)

\* PdfGenerator.ts:37-40 and 56-59, one point added to the bounding box
ExtendBox(box, tx, ty) ==
    [minX |-> IF tx < box.minX THEN tx ELSE box.minX,
     maxX |-> IF tx > box.maxX THEN tx ELSE box.maxX,
     minY |-> IF ty < box.minY THEN ty ELSE box.minY,
     maxY |-> IF ty > box.maxY THEN ty ELSE box.maxY]

RECURSIVE BoxFrom(_, _, _, _)
BoxFrom(points, t, k, box) ==
    IF k > Len(points) THEN box
    ELSE BoxFrom(points, t, k + 1,
                 ExtendBox(box, TransformX(t, points[k][1], points[k][2]),
                                TransformY(t, points[k][1], points[k][2])))

\* PdfGenerator.ts:28-29
EmptyBox == [minX |-> Infinity, maxX |-> -Infinity, minY |-> Infinity, maxY |-> -Infinity]

\* PdfGenerator.ts:65-71 and 79-85, the layout of the native canvas
NativeLayout ==
    [scale |-> PDF_SCALE, offsetX |-> 0, offsetY |-> 0,
     pageWidth |-> RM_WIDTH, pageHeight |-> RM_HEIGHT]

\* PdfGenerator.ts:74-76
fitsStandardCanvas(box) ==
    /\ box.minX >= -1
    /\ box.maxX <= RM_WIDTH + 1
    /\ box.minY >= -1
    /\ box.maxY <= RM_HEIGHT + 1

\* the mutant takes the larger of scaleX and scaleY
FitLayoutLoose(box) ==
    [scale |-> MathMax([num |-> RM_WIDTH, den |-> (box.maxX + PADDING) - (box.minX - PADDING)],
                       [num |-> RM_HEIGHT, den |-> (box.maxY + PADDING) - (box.minY - PADDING)]),
     offsetX |-> -(box.minX - PADDING),
     offsetY |-> -(box.minY - PADDING),
     pageWidth |-> RM_WIDTH, pageHeight |-> RM_HEIGHT]

\* PdfGenerator.ts:88-107, the layout that fits the padded box
FitLayout(box) ==
    [scale |-> MathMin([num |-> RM_WIDTH, den |-> (box.maxX + PADDING) - (box.minX - PADDING)],
                       [num |-> RM_HEIGHT, den |-> (box.maxY + PADDING) - (box.minY - PADDING)]),
     offsetX |-> -(box.minX - PADDING),
     offsetY |-> -(box.minY - PADDING),
     pageWidth |-> RM_WIDTH, pageHeight |-> RM_HEIGHT]

\* PdfGenerator.ts:27-108, computePageLayout
computePageLayout(pages, transform) ==
    One({ IF box.minX = Infinity THEN NativeLayout
          ELSE IF fitsStandardCanvas(box) THEN NativeLayout
          ELSE FitLayout(box)
          : box \in {BoxFrom(PointsOfPages(pages, 1), transform, 1, EmptyBox)} })

\* pages of a document
MaxLayoutPages == 2

\* types.ts, DocumentContent.transform: the identity (PdfGenerator.ts:114),
\* an enlargement, a mirror image and a shear
Transforms ==
    { [m11 |-> 1, m12 |-> 0, m13 |-> 0, m21 |-> 0, m22 |-> 1, m23 |-> 0],
      [m11 |-> 2, m12 |-> 0, m13 |-> -10, m21 |-> 0, m22 |-> 2, m23 |-> 10],
      [m11 |-> -1, m12 |-> 0, m13 |-> 1404, m21 |-> 0, m22 |-> 1, m23 |-> 0],
      [m11 |-> 1, m12 |-> 1, m13 |-> 0, m21 |-> 0, m22 |-> 1, m23 |-> 0] }

\* the segments of a page's strokes: none, inside the canvas, on the edge of
\* the tolerance, just beyond it, twice the canvas wide, and tall
SegmentLists ==
    { <<>>,
      << <<100, 100>>, <<700, 900>> >>,
      << <<-1, -1>>, <<702, 1873>> >>,
      << <<-2, 100>> >>,
      << <<0, 0>>, <<2808, 900>> >>,
      << <<700, 3000>>, <<-500, -300>> >> }

\* the rectangles of a page's highlights
RectLists ==
    { <<>>,
      << [x |-> 100, y |-> 100, w |-> 200, h |-> 50] >>,
      << [x |-> 1300, y |-> 1800, w |-> 200, h |-> 50] >> }

LayoutPages == [segments : SegmentLists, rects : RectLists]

\* PdfGenerator.ts:115, generatePdf computes the layout of its pages
CallComputePageLayout ==
    /\ ~result.done
    /\ result' = [done |-> TRUE,
                  layout |-> computePageLayout(input.pages, input.transform)]
    /\ UNCHANGED <<input, pluginVars, engineVars, kind, outputs, revoked, clientVars>>

InitLayout ==
    /\ InitSyncIdle
    /\ InitClientIdle
    /\ input \in [pages : SeqsUpTo(LayoutPages, MaxLayoutPages), transform : Transforms]
    /\ result = [done |-> FALSE, layout |-> NativeLayout]

SpecLayout == InitLayout /\ [][CallComputePageLayout]_vars

(* --------------------------- annotation overlay ------------------------ *)
\* pages of a document's page order, and pages of its base PDF
MaxOverlayPages == 3

\* what the page loop finds for a page id: no .rm entry, a blob whose fetch
\* or decoding fails, a decoded page without content, a decoded page with
\* strokes or highlights
PageStates == {"nofile", "bad", "blank", "ink"}

\* PdfGenerator.ts:257-259, hasContent of a decoded page
hasContent(rmPage) == rmPage.ink

\* SyncEngine.ts:252-254, hasAnnotations
hasAnnotations(pages) == \E k \in 1..Len(pages) : hasContent(pages[k])

\* SyncEngine.ts:227-241, one pass of the page loop: a page without .rm
\* entry is passed over, a failing page is caught, a decoded page is pushed;
\* position is the page's place in the page order
CollectPage ==
    /\ result.phase = "pages"
    /\ result.k <= Len(input.pageOrder)
    /\ LET state == input.pageOrder[result.k]
       IN  result' = [result EXCEPT
               !.k = @ + 1,
               !.pages = IF state \in {"nofile", "bad"} THEN @
                         ELSE Append(@, [position |-> result.k, ink |-> state = "ink"])]
    /\ UNCHANGED <<input, pluginVars, engineVars, kind, outputs, revoked, clientVars>>

\* SyncEngine.ts:256-260 and PdfGenerator.ts:249-253: with a base PDF and
\* annotations overlayAnnotations is called, else the base PDF is kept
StartOverlay ==
    /\ result.phase = "pages"
    /\ result.k > Len(input.pageOrder)
    /\ result' = [result EXCEPT
           !.phase = IF hasAnnotations(result.pages) THEN "overlay" ELSE "done"]
    /\ UNCHANGED <<input, pluginVars, engineVars, kind, outputs, revoked, clientVars>>

\* PdfGenerator.ts:253-278, one pass of the loop of overlayAnnotations:
\* annotationPages[i] is drawn on pdfPages[i] (i counts from 0)
OverlayPage ==
    /\ result.phase = "overlay"
    /\ result.i < Len(result.pages)
    /\ result.i < input.pdfPages
    /\ LET rmPage == result.pages[result.i + 1]
       IN  result' = [result EXCEPT
               !.i = @ + 1,
               !.drawn = IF hasContent(rmPage)
                         THEN @ \cup {[from |-> rmPage.position, on |-> result.i + 1]}
                         ELSE @]
    /\ UNCHANGED <<input, pluginVars, engineVars, kind, outputs, revoked, clientVars>>

\* PdfGenerator.ts:280-281, the loop is over and the document is saved
EndOverlay ==
    /\ result.phase = "overlay"
    /\ ~(result.i < Len(result.pages) /\ result.i < input.pdfPages)
    /\ result' = [result EXCEPT !.phase = "done"]
    /\ UNCHANGED <<input, pluginVars, engineVars, kind, outputs, revoked, clientVars>>

\* a document with a base PDF: the state of each page of its page order and
\* the number of pages of the PDF
InitOverlay ==
    /\ InitSyncIdle
    /\ InitClientIdle
    /\ input \in [pageOrder : SeqsUpTo(PageStates, MaxOverlayPages),
                  pdfPages : 1..MaxOverlayPages]
    /\ result = [phase |-> "pages", k |-> 1, pages |-> <<>>, i |-> 0, drawn |-> {}]

NextOverlay == CollectPage \/ StartOverlay \/ OverlayPage \/ EndOverlay

SpecOverlay == InitOverlay /\ [][NextOverlay]_vars

(* ============================== claims ================================= *)
\* the root entry the listing loop of engine e is at
EntryAt(e) == run[e].entries[run[e].i]

\* the document the per-document loop of engine e is at
DocAt(e) == run[e].changedDocs[run[e].i]

\* the steps of syncDocument and of the loop around it
DocPhase == {"docs", "docFetch", "docWrite", "docSave"}

\* the items of the run's root entries-list that the listing loop listed
\* (rebuilt from the cache or fetched), as opposed to skipped
Listed(e) == run[e].allItems

\* C1 (as claimed): at most one sync run executes at any time, whatever the
\* interleaving of sync triggers with initClient / registerDevice.
C1_AtMostOneRun ==
    \A e1, e2 \in Engines : isSyncing[e1] /\ isSyncing[e2] => e1 = e2

\* C2 (as claimed): when the listing loop comes to a document's root entry and
\* the cache record holds the entry's hash and the document's output file
\* exists, the run starts no fetch for the item; that includes the record
\* syncDocument left in the previous run.
C2_NoFetchWhenCached ==
    [][\A e \in Engines :
        (/\ run[e].pc = "list"
         /\ kind[EntryAt(e).id] = "DocumentType"
         /\ syncState[EntryAt(e).id].hash = EntryAt(e).hash
         /\ EntryAt(e).id \in outputs)
        => run'[e].pc # "fetchEntries"]_vars

\* C3 (as claimed): a run that reaches reconciliation has called syncDocument
\* for every listed document whose record held the entry's hash and an
\* output location while its output file was missing.
C3_MissingOutputReprocessed ==
    \A e \in Engines :
        run[e].pc = "finalSave" =>
            (run[e].missing \cap Listed(e)) \subseteq run[e].processed

\* C4 (as claimed): a run that reaches reconciliation has called syncDocument
\* for every listed document whose record held a hash other than the root
\* entry's, whether or not the document's output file exists.
C4_ChangedProcessed ==
    \A e \in Engines :
        run[e].pc = "finalSave" =>
            (run[e].stale \cap Listed(e)) \subseteq run[e].processed

\* C5: the reconciliation step removes exactly the records whose id is not in
\* the run's root entries-list and leaves every other record as it was,
\* whether the item was listed, skipped or failed.
C5_PurgeExactlyAbsent ==
    [][\A e \in Engines :
        (run[e].pc = "docs" /\ run'[e].pc = "finalSave") =>
            \A id \in Ids :
                syncState'[id] =
                    IF id \in EntryIds(run[e].entries) THEN syncState[id] ELSE NoRecord]_vars

\* C5 witness: a run has reconciled; a skipped item of the root list is still
\* cached and an id outside the list has no record
C5_Witness ==
    \E e \in Engines :
        /\ run[e].pc = "finalSave"
        /\ \E id \in EntryIds(run[e].entries) \ Listed(e) : syncState[id].hash # 0
        /\ \E id \in Ids \ EntryIds(run[e].entries) : syncState[id] = NoRecord

C7_FailureContained ==
    [][\A e \in Engines :
        /\ run'[e].errorCount = run[e].errorCount + 1
             => /\ outputs' = outputs
                /\ syncState' = syncState
                /\ isSyncing'[e]
                /\ run'[e] = [run[e] EXCEPT !.pc = "docs", !.i = @ + 1,
                                            !.errorCount = @ + 1]
        /\ (run[e].pc \in DocPhase /\ run'[e].pc \notin DocPhase)
             => /\ run'[e].pc = "finalSave"
                /\ run[e].i = Len(run[e].changedDocs) + 1
                /\ lastSync' = runs
                /\ syncState' = PurgeStale(syncState, EntryIds(run[e].entries))]_vars

\* C7 witness: after a failed document the run has written a later one
C7_Witness ==
    \E e \in Engines :
        /\ run[e].pc = "docSave"
        /\ run[e].errorCount = 1
        /\ run[e].i = 2

\* the authedRequest call is over
CallOver == call.pc \in {"returned", "threw"}

\* C8 (as claimed): an authentication failure of the first request is
\* followed by exactly one refreshToken call and exactly one retry: a call
\* that ends after such a failure has sent the request twice, and never more.
C8_RefreshAndRetry ==
    /\ call.sends <= 2
    /\ call.refreshes <= 1
    /\ (CallOver /\ \E st \in call.err1 : IsAuthFailure(st)) =>
          call.refreshes = 1 /\ call.sends = 2

\* C8 (amended): an authentication failure of the first request is followed
\* by exactly one refreshToken call and, if that call returns, by exactly one
\* retry; what the retry fails with is thrown to the caller without a further
\* refresh or request, so at most two requests are sent.  If the refreshToken
\* call fails, its error is thrown and the request is not sent again.
C8_OneRefreshOneRetry ==
    /\ call.sends <= 2
    /\ call.refreshes <= 1
    /\ call.refreshes = 1 <=> (\E st \in call.err1 : IsAuthFailure(st))
    /\ call.pc = "retry" => call.sends = 2 /\ call.refreshes = 1
    /\ (CallOver /\ call.sends = 2) =>
          /\ call.refreshes = 1
          /\ IF call.err2 = {} THEN call.pc = "returned"
             ELSE call.pc = "threw" /\ call.thrown = call.err2
    /\ (CallOver /\ call.refreshes = 1 /\ call.sends = 1) => call.pc = "threw"

\* C8 witness: the first request failed with 401, the retry with 403, and
\* the call threw that error after two requests and one refresh
C8_Witness ==
    /\ call.pc = "threw"
    /\ call.err1 = {401}
    /\ call.err2 = {403}
    /\ call.thrown = {403}
    /\ call.sends = 2
    /\ call.refreshes = 1

\* C9: a request that fails with a status other than 401/403, or without a
\* status (transport), ends the call at once: the error thrown carries the
\* HTTP status, or 0 when requestUrl's error had none, and the failure is
\* followed by no refreshToken call and no further request (a failed first
\* request was the only one sent, a failed retry the second).
C9_OtherFailuresPropagate ==
    \A o \in call.raw :
        (~o.ok /\ ~(o.hasStatus /\ o.status \in {401, 403})) =>
            /\ call.pc = "threw"
            /\ call.thrown = {IF o.hasStatus THEN o.status ELSE 0}
            /\ IF call.err2 = {}
               THEN call.sends = 1 /\ call.refreshes = 0
               ELSE call.sends = 2 /\ call.refreshes = 1

\* C9 witness: a transport failure of the first request has ended a call
C9_Witness ==
    /\ call.pc = "threw"
    /\ call.sends = 1
    /\ call.refreshes = 0
    /\ call.thrown = {0}
    /\ \E o \in call.raw : ~o.ok /\ ~o.hasStatus

\* C10 (as claimed): no request of authedRequest, first or retry, is sent
\* with a null session token, whatever updateDeviceToken calls interleave.
C10_TokenNeverNull ==
    call.pc \in {"request", "retry"} => call.header # 0

\* the steps of a run that await a client call
CallPhase == {"auth", "root", "entries", "fetchEntries", "fetchMeta", "docFetch"}

\* C11 (as claimed): a run is aborted exactly when authentication is
\* exhausted or the root hash / root entries-list cannot be obtained: once
\* every call fails with an exhausted authentication, the step that
\* completes a call ends the run, in whichever phase; and a run is left
\* early only from the authentication and the root fetches.
C11_AuthExhaustionAborts ==
    [][\A e \in Engines :
        /\ (revoked /\ run[e].pc \in CallPhase /\ run'[e] # run[e])
              => run'[e].pc = "idle" /\ ~isSyncing'[e]
        /\ (run[e].pc \notin {"idle", "finalSave"} /\ run'[e].pc = "idle")
              => run[e].pc \in {"auth", "root", "entries"}]_vars

\* the phase of a run, by where its sync() call is: 0 Idle, 1 Authenticating,
\* 2 Listing, 3 per-document processing, 4 Reconciling
Phase(pc) ==
    CASE pc = "idle" -> 0
      [] pc = "auth" -> 1
      [] pc \in {"root", "entries", "list", "fetchEntries", "fetchMeta"} -> 2
      [] pc \in DocPhase -> 3
      [] pc = "finalSave" -> 4

PosIn(entries, id) ==
    IF \E k \in 1..Len(entries) : entries[k].id = id
    THEN CHOOSE k \in 1..Len(entries) : entries[k].id = id
    ELSE 0

\* the ids of the first n documents of the run's queue
DocsUpTo(r, n) ==
    {r.changedDocs[k].id : k \in 1..(IF n < Len(r.changedDocs) THEN n ELSE Len(r.changedDocs))}

\* C13: the queue of documents is in root entries-list order; syncDocument
\* has been called only for documents up to the loop's position, so a
\* document starts only when the loop is between documents, and it is the
\* one at the loop's position; the position moves on one document at a time,
\* from the end of the current document's processing.
C13_OneDocumentAtATime ==
    /\ [](\A e \in Engines :
            /\ \A j, k \in 1..Len(run[e].changedDocs) :
                  j < k => /\ 0 < PosIn(run[e].entries, run[e].changedDocs[j].id)
                           /\ PosIn(run[e].entries, run[e].changedDocs[j].id)
                                < PosIn(run[e].entries, run[e].changedDocs[k].id)
            /\ run[e].pc \in {"docFetch", "docWrite", "docSave"} =>
                  /\ DocAt(e).id \in run[e].processed
                  /\ run[e].processed \subseteq DocsUpTo(run[e], run[e].i)
            /\ run[e].pc = "docs" =>
                  run[e].processed \subseteq DocsUpTo(run[e], run[e].i - 1))
    /\ [][\A e \in Engines :
            /\ (run'[e].pc = "docFetch" /\ run[e].pc # "docFetch") =>
                  /\ run[e].pc = "docs"
                  /\ run'[e].i = run[e].i
                  /\ run'[e].processed = run[e].processed \cup {DocAt(e).id}
            /\ (run[e].pc \in DocPhase /\ run'[e].pc \in DocPhase
                  /\ run'[e].i # run[e].i) =>
                  /\ run'[e].i = run[e].i + 1
                  /\ run'[e].pc = "docs"
                  /\ run'[e].changedDocs = run[e].changedDocs]_vars

\* C13 witness: the second document of a run is being fetched after
\* syncDocument has returned for the first, whose output is in the vault
C13_Witness ==
    \E e \in Engines :
        /\ run[e].pc = "docFetch"
        /\ run[e].i = 2
        /\ run[e].syncedCount = 1
        /\ run[e].changedDocs[1].id \in outputs
        /\ run[e].processed = {run[e].changedDocs[1].id, run[e].changedDocs[2].id}

\* the steps of fetchItem for one root entry
FetchPhase == {"fetchEntries", "fetchMeta"}

\* C14: whatever fetchItem ends with for a root entry (item, null, or an
\* exception from a fetch or a parse), the run keeps the guard and the root
\* list, and the listing loop goes on with the next entry, or with the
\* per-document loop after the last one; an entry that is skipped changes
\* neither the cache nor the items listed so far, and an entry that is
\* listed is added to them.
C14_ListingNeverAborts ==
    /\ [](\A e \in Engines :
            run[e].pc \in {"list"} \cup FetchPhase =>
                /\ run[e].i \in 1..Len(run[e].entries)
                /\ run[e].allItems \subseteq
                      {run[e].entries[k].id : k \in 1..(run[e].i - 1)})
    /\ [][\A e \in Engines :
            (run[e].pc \in FetchPhase /\ run'[e] # run[e]) =>
                /\ isSyncing'[e]
                /\ run'[e].entries = run[e].entries
                /\ run[e].allItems \subseteq run'[e].allItems
                /\ \/ /\ run[e].pc = "fetchEntries"
                      /\ run'[e] = [run[e] EXCEPT !.pc = "fetchMeta"]
                   \/ /\ run'[e].pc = IF run[e].i = Len(run[e].entries)
                                      THEN "docs" ELSE "list"
                      /\ run'[e].i = IF run[e].i = Len(run[e].entries)
                                     THEN 1 ELSE run[e].i + 1
                      /\ \/ /\ syncState' = syncState
                            /\ run'[e].allItems = run[e].allItems
                            /\ run'[e].changedDocs = run[e].changedDocs
                         \/ /\ run[e].pc = "fetchMeta"
                            /\ run'[e].allItems =
                                  run[e].allItems \cup {EntryAt(e).id}]_vars

\* C14 witness: the listing of a two-entry root list is over; its first
\* entry was skipped and its second is listed
C14_Witness ==
    \E e \in Engines :
        /\ run[e].pc = "docs"
        /\ run[e].i = 1
        /\ Len(run[e].entries) = 2
        /\ run[e].allItems = {run[e].entries[2].id}
        /\ Len(run[e].changedDocs) = 1

\* the text without its trailing line break, if it has one
StripTrailingNewline(text) ==
    IF Len(text) > 0 /\ text[Len(text)] = "\n" THEN SliceOffLast(text) ELSE text

\* the lines of an entries-list text
LinesOf(text) == Split(StripTrailingNewline(text), "\n")

\* C15 (as claimed): a text whose first line is not the integer 3 or 4 makes
\* parseEntriesText throw; a schema-3 value holds the records of the lines
\* after the first, a schema-4 value those of the lines after the second.
C15_FailsClosed ==
    result.done =>
        LET lines == LinesOf(input)
            file == result.file
        IN  /\ lines[1] \notin {<<"3">>, <<"4">>} => file.threw # "none"
            /\ (file.threw = "none" /\ file.schemaVersion = 3) =>
                  /\ lines[1] = <<"3">>
                  /\ file.entries =
                        [k \in 1..(Len(lines) - 1) |-> parseEntryLine(lines[k + 1])]
            /\ (file.threw = "none" /\ file.schemaVersion = 4) =>
                  /\ lines[1] = <<"4">>
                  /\ file.entries =
                        [k \in 1..(Len(lines) - 2) |-> parseEntryLine(lines[k + 2])]

\* C16 (as claimed): the type decoded from an entry record line is the
\* integer 0x80000000 when the type field is the string 80000000, and 0 for
\* every other type field.  (0x80000000 = 0x8000 * 0x10000 is written by its
\* quotient and remainder by 0x10000 = 65536, 0x8000 being 32768.)
C16_CollectionTypeValue ==
    result.done =>
        IF Split(input, ":")[2] = Str80000000
        THEN /\ result.entry.type \div 65536 = 32768
             /\ result.entry.type % 65536 = 0
        ELSE result.entry.type = 0

\* a valid entries-list text: the version line 3 or 4, for schema 4 an info
\* record, then entry records
ValidText(text) ==
    LET lines == LinesOf(text)
    IN  \/ /\ lines[1] = <<"3">>
           /\ \A k \in 2..Len(lines) : lines[k] \in EntryLines
        \/ /\ lines[1] = <<"4">>
           /\ Len(lines) >= 2
           /\ lines[2] = InfoLine
           /\ \A k \in 3..Len(lines) : lines[k] \in EntryLines

\* C17 (as claimed): for a valid text, with or without a trailing line
\* break, parseEntriesText returns the version of the first line and the
\* records of the entry lines, the last one whole.
C17_TrailingNewlineOnly ==
    (result.done /\ ValidText(input)) =>
        LET lines == LinesOf(input)
            first == IF lines[1] = <<"3">> THEN 2 ELSE 3
        IN  /\ result.file.threw = "none"
            /\ result.file.schemaVersion = ParseInt(lines[1]).val
            /\ result.file.entries =
                  [k \in 1..(Len(lines) - first + 1) |->
                      parseEntryLine(lines[k + first - 1])]

(* ---- C18 ---- *)
\* the elements of a list, with their multiplicities
BagOf(arr) == [x \in {arr[k] : k \in 1..Len(arr)} |->
                 Cardinality({k \in 1..Len(arr) : arr[k] = x})]

Ascending(keys) ==
    \A k \in 1..(Len(keys) - 1) : StrCompare(keys[k], keys[k + 1]) <= 0

\* the '.rm' file names of the sub-entries without directory and extension
InferredIds(fileEntries) ==
    LET rm == {k \in 1..Len(fileEntries) : EndsWith(fileEntries[k], DotRm)}
        name(id) == LET slashes == {j \in 1..Len(id) : id[j] = "/"}
                        from == IF slashes = {} THEN 1
                                ELSE 1 + CHOOSE j \in slashes : \A i \in slashes : i <= j
                    IN  SubSeq(id, from, Len(id) - Len(DotRm))
    IN  [x \in {name(fileEntries[k]) : k \in rm} |->
            Cardinality({k \in rm : name(fileEntries[k]) = x})]

\* C18: the page order is the explicit page-id list when that is non-empty;
\* otherwise, when the cPages list is non-empty, its ids in ascending order
\* of their index strings; otherwise the page ids of the '.rm' file names
\* in lexicographic order.
C18_PageOrderFallback ==
    result.done =>
        LET pages == input.content.pages
            cPages == input.content.cPages
            order == result.pageOrder
        IN  IF Len(pages) > 0 THEN order = pages
            ELSE IF Len(cPages) > 0
            THEN \E perm \in [1..Len(cPages) -> 1..Len(cPages)] :
                    /\ \A i, j \in 1..Len(cPages) : perm[i] = perm[j] => i = j
                    /\ Len(order) = Len(cPages)
                    /\ \A k \in 1..Len(cPages) : order[k] = cPages[perm[k]].id
                    /\ Ascending([k \in 1..Len(cPages) |-> cPages[perm[k]].idx])
            ELSE /\ BagOf(order) = InferredIds(input.fileEntries)
                 /\ Ascending(order)

\* an empty explicit list and two index entries given in descending order:
\* the ids come out in the other order
C18_Witness ==
    /\ result.done
    /\ input.content.pages = <<>>
    /\ Len(input.content.cPages) = MaxPages
    /\ StrCompare(input.content.cPages[1].idx, input.content.cPages[2].idx) > 0
    /\ input.content.cPages[1].id # input.content.cPages[2].id
    /\ result.pageOrder = <<input.content.cPages[2].id, input.content.cPages[1].id>>

(* ---- C19 ---- *)
\* C19: the walk up the parent chain ends for every item list, also when
\* the parent pointers form a cycle: no item is entered into the path a
\* second time, so the path is never longer than the list.
C19_WalkTerminates ==
    /\ \A i, j \in 1..Len(result.pathParts) :
          result.pathParts[i] = result.pathParts[j] => i = j
    /\ Len(result.pathParts) <= Cardinality(DOMAIN input.allItems)

(* ---- C20 ---- *)
\* a blob whose first 43 bytes are neither the legacy header nor the
\* versioned prefix followed by one of the digits 3, 5 and 6
BadPage(data) ==
    LET legacy == /\ Len(data) >= HEADER_LENGTH
                  /\ \A k \in 1..HEADER_LENGTH : data[k] = HEADER_V3_OLD[k]
        versioned == /\ Len(data) > Len(HEADER_VERSIONED)
                     /\ \A k \in 1..Len(HEADER_VERSIONED) : data[k] = HEADER_VERSIONED[k]
                     /\ data[Len(HEADER_VERSIONED) + 1] \in {"3", "5", "6"}
    IN  ~(legacy \/ versioned)

\* the pages whose blobs were fetched
FetchedPages == {result.rawRmFiles[k] : k \in 1..Len(result.rawRmFiles)}

\* C20: a fetched page with a bad blob is left out and nothing else: the
\* decoded pages are the fetched pages with good blobs in page order, the
\* loop goes on to the last page, and the document is written unless a
\* later step fails.
C20_BadPageSkipped ==
    LET good == {k \in 1..Len(input.pageEntries) : ~BadPage(input.pageEntries[k].data)}
        decoded == Filter(result.rawRmFiles, good)
    IN  /\ Len(result.pages) = Len(decoded)
        /\ \A k \in 1..Len(decoded) : result.pages[k].id = decoded[k]
        /\ \A k \in 1..(Len(result.rawRmFiles) - 1) :
              result.rawRmFiles[k] < result.rawRmFiles[k + 1]
        /\ result.done => result.k = Len(input.pageEntries) + 1
        /\ (result.done /\ ~result.failed /\ FetchedPages # {}) => result.written

\* a document without PDF and EPUB whose first page has a bad blob and whose
\* second page is good: the second page alone is decoded and the document
\* is written
C20_Witness ==
    /\ result.done /\ result.written
    /\ ~input.basePdf /\ ~input.baseEpub
    /\ Len(input.pageEntries) = MaxPages
    /\ input.pageEntries[1].rm /\ BadPage(input.pageEntries[1].data)
    /\ result.rawRmFiles = <<1, 2>>
    /\ result.pages = <<[id |-> 2, version |-> 5]>>

(* ---- C21 ---- *)
\* the bytes of a page body of a given shape: 4 for the page, 4 for each
\* layer, and for each stroke its header and 24 for each segment
BodyLength(shape, strokeHeader) ==
    LET RECURSIVE Sum(_)
        Sum(seq) == IF seq = <<>> THEN 0 ELSE Head(seq) + Sum(Tail(seq))
    IN  4 + Sum([l \in 1..Len(shape) |->
                 4 + Sum([s \in 1..Len(shape[l]) |-> strokeHeader + 24 * shape[l][s]])])

\* C21: for a body whose counts fit its length, the decoder ends exactly
\* 4 + sum(4 + sum(24 + 24 * segments)) bytes behind the header (20 for the
\* stroke header of format 3) and returns the declared layers, strokes and
\* segments in file order.
C21_ConsumesDeclared ==
    (result.done /\ input.ends # "cut") =>
        LET page == result.page
            shape == input.shape
        IN  /\ ~page.threw
            /\ page.offset = HEADER_LENGTH
                   + BodyLength(shape, IF input.version = 5 THEN 24 ELSE 20)
            /\ Len(page.layers) = Len(shape)
            /\ \A l \in 1..Len(shape) :
                  /\ Len(page.layers[l].strokes) = Len(shape[l])
                  /\ \A s \in 1..Len(shape[l]) :
                        LET stroke == page.layers[l].strokes[s]
                        IN  /\ stroke.pen = s /\ stroke.color = l /\ stroke.width = 2
                            /\ Len(stroke.segments) = shape[l][s]
                            /\ \A i \in 1..shape[l][s] :
                                  /\ stroke.segments[i].x = i
                                  /\ stroke.segments[i].pressure = 256 + i

\* a format-5 page of two layers with two strokes of two segments each, in
\* a buffer with a byte behind it
C21_Witness ==
    /\ result.done
    /\ input.version = 5
    /\ input.ends = "extra"
    /\ input.shape = <<<<2, 2>>, <<2, 2>>>>
    /\ result.page.offset = HEADER_LENGTH + 300
    /\ Len(result.page.layers[2].strokes[2].segments) = 2

(* ---- C22 ---- *)
\* the well-formed line item and glyph item of the streams
SoundLine == [type |-> "line", id |-> 1, damage |-> "none", at |-> 0]

SoundGlyph == [type |-> "glyph", id |-> 1, damage |-> "none", at |-> 0]

\* C22: a well-formed line item, a truncated block and a well-formed glyph
\* item decode to exactly one stroke and exactly one highlight.
C22_TruncatedBlockSkipped ==
    (/\ result.done
     /\ input.cut = 0
     /\ Len(input.blocks) = 3
     /\ input.blocks[1] = SoundLine
     /\ input.blocks[2].damage \in {"cut", "short"}
     /\ input.blocks[3] = SoundGlyph)
    => (Len(result.strokes) = 1 /\ Len(result.highlights) = 1)

(* ---- C23 ---- *)
\* where block k of the stream starts
StartOfBlock(k) ==
    HEADER_LENGTH + Len(Flatten([j \in 1..(k - 1) |-> BlockOf(input.blocks[j])]))

\* the ids of the well-formed blocks of a type, in stream order
SoundIds(type) ==
    LET sound == {k \in 1..Len(input.blocks) :
                     input.blocks[k].type = type /\ input.blocks[k].damage = "none"}
        kept == FilterFrom([k \in 1..Len(input.blocks) |-> k], sound, 1)
    IN  [j \in 1..Len(kept) |-> input.blocks[kept[j]].id]

\* C23: a block with a tag mismatch gives no stroke and no highlight, the
\* reader goes on at the declared end of every block, and the strokes and
\* highlights are those of the well-formed blocks in stream order.
C23_MismatchAbandonsBlock ==
    (/\ input.cut = 0
     /\ \A k \in 1..Len(input.blocks) : input.blocks[k].damage \notin {"cut", "short"})
    => /\ \A k \in 1..Len(result.frames) :
             /\ result.frames[k].blockStart = StartOfBlock(k)
             /\ input.blocks[k].damage # "none" => ~result.frames[k].item
       /\ result.pos = StartOfBlock(Len(result.frames) + 1)
       /\ result.done =>
             /\ Len(result.frames) = Len(input.blocks)
             /\ Len(result.strokes) = Len(SoundIds("line"))
             /\ \A k \in 1..Len(result.strokes) :
                   /\ result.strokes[k].pen = SoundIds("line")[k]
                   /\ Len(result.strokes[k].segments) = SoundIds("line")[k]
             /\ Len(result.highlights) = Len(SoundIds("glyph"))
             /\ \A k \in 1..Len(result.highlights) :
                   /\ result.highlights[k].color = SoundIds("glyph")[k]
                   /\ Len(result.highlights[k].rects) = 1

\* a line item whose pen tag is another tag, between a line item of two
\* points and a glyph item: the parser threw on the second block and the
\* page has the stroke and the highlight of the other two
C23_Witness ==
    /\ result.done
    /\ input.cut = 0
    /\ Len(input.blocks) = 3
    /\ input.blocks[1] = [type |-> "line", id |-> 2, damage |-> "none", at |-> 0]
    /\ input.blocks[2] = [type |-> "line", id |-> 1, damage |-> "tag", at |-> 23]
    /\ input.blocks[3] = SoundGlyph
    /\ result.frames[2].threw
    /\ Len(result.strokes) = 1 /\ result.strokes[1].pen = 2
    /\ Len(result.highlights) = 1

(* ---- C30 ---- *)
\* C30: the scan moves strictly forward, and every block it reads lies in
\* the buffer with its 8-byte frame and its declared body.
C30_ScanInsideBuffer ==
    \A k \in 1..Len(result.frames) :
        LET frame == result.frames[k]
            next == IF k < Len(result.frames) THEN result.frames[k + 1].blockStart
                    ELSE result.pos
        IN  /\ next > frame.blockStart
            /\ next = frame.blockStart + 8 + frame.blockLength
            /\ frame.blockStart + 8 + frame.blockLength <= Len(V6Bytes(input))

C25_SingleSegmentDot ==
    (/\ isPressureSensitive(getNormalizedPen(input.pen))
     /\ input.n = 1)
    => /\ result.svg # <<>> =>
             /\ result.svg[1].el = "circle"
             /\ LET r == IF input.width \div 2 > 50 THEN input.width \div 2 ELSE 50
                IN  result.svg[1].r * 10 - r \in -5..5
       /\ result.pdf # <<>> => result.pdf[1].el # "null"

(* ---- C26 ---- *)
\* the transformed stroke points and highlight corners of the input
LayoutPoints ==
    LET points == PointsOfPages(input.pages, 1)
    IN  { <<TransformX(input.transform, points[k][1], points[k][2]),
            TransformY(input.transform, points[k][1], points[k][2])>> : k \in 1..Len(points) }

\* C26: computePageLayout returns the native scale and no offset when there
\* is no content or all of it lies within the canvas (tolerance 1);
\* otherwise the largest scale that fits the padded bounding box into the
\* page on both axes, with the offset that moves the box's minimum to 0, so
\* that every point, after offset and scale, lies within the page.
C26_LayoutFits ==
    result.done =>
        LET layout == result.layout
            pts == LayoutPoints
        IN  IF \A p \in pts : /\ p[1] >= -1 /\ p[1] <= RM_WIDTH + 1
                              /\ p[2] >= -1 /\ p[2] <= RM_HEIGHT + 1
            THEN layout = [scale |-> [num |-> 1, den |-> 1], offsetX |-> 0, offsetY |-> 0,
                           pageWidth |-> RM_WIDTH, pageHeight |-> RM_HEIGHT]
            ELSE LET minX == CHOOSE v \in {p[1] : p \in pts} : \A p \in pts : v <= p[1]
                     maxX == CHOOSE v \in {p[1] : p \in pts} : \A p \in pts : v >= p[1]
                     minY == CHOOSE v \in {p[2] : p \in pts} : \A p \in pts : v <= p[2]
                     maxY == CHOOSE v \in {p[2] : p \in pts} : \A p \in pts : v >= p[2]
                     boxW == maxX - minX + 2 * 20
                     boxH == maxY - minY + 2 * 20
                 IN  /\ layout.scale.den > 0
                     /\ layout.scale.num > 0
                     /\ boxW * layout.scale.num <= RM_WIDTH * layout.scale.den
                     /\ boxH * layout.scale.num <= RM_HEIGHT * layout.scale.den
                     /\ \/ boxW * layout.scale.num = RM_WIDTH * layout.scale.den
                        \/ boxH * layout.scale.num = RM_HEIGHT * layout.scale.den
                     /\ layout.offsetX = 20 - minX
                     /\ layout.offsetY = 20 - minY
                     /\ \A p \in pts :
                           /\ (p[1] + layout.offsetX) * layout.scale.num >= 0
                           /\ (p[1] + layout.offsetX) * layout.scale.num
                                 <= layout.pageWidth * layout.scale.den
                           /\ (p[2] + layout.offsetY) * layout.scale.num >= 0
                           /\ (p[2] + layout.offsetY) * layout.scale.num
                                 <= layout.pageHeight * layout.scale.den

\* one page with a stroke from 0 to twice the canvas width: the scale is
\* 1404 / 2848 of the native one and the offset is the padding
C26_Witness ==
    /\ result.done
    /\ input.transform.m11 = 1
    /\ input.transform.m12 = 0
    /\ input.pages = <<[segments |-> << <<0, 0>>, <<2808, 900>> >>, rects |-> <<>>]>>
    /\ result.layout.scale = [num |-> RM_WIDTH, den |-> 2848]
    /\ result.layout.offsetX = 20
    /\ result.layout.offsetY = 20

(* ---- C27 ---- *)
\* C27: a document's cache record holds the document's current cloud hash
\* only if the output was written for that hash.  At the end of a run in
\* which no syncDocument call returned normally, a document whose record
\* held another hash when its entry was listed, and for which syncDocument
\* was called, has the entry's hash in its record only as the record that
\* syncDocument writes after the output (vaultPath, no visibleName).
C27_HashOnlyIfWritten ==
    \A e \in Engines : \A k \in 1..Len(run[e].entries) :
        LET r == run[e]
            entry == r.entries[k]
        IN  (/\ r.pc = "finalSave"
             /\ entry.id \in r.stale
             /\ entry.id \in r.processed
             /\ r.syncedCount = 0
             /\ syncState[entry.id].hash = entry.hash)
            => syncState[entry.id] = SyncedRecord(entry.hash)

(* ---- C29 ---- *)
\* C29: while the settings hold no device token (after Disconnect and until
\* a registration has succeeded), no step starts a sync run: every sync()
\* call is rejected as not registered, so no request is made.
C29_NoRunAfterDisconnect ==
    [][deviceToken = ""
         => \A e \in Engines : run[e].pc = "idle" => run'[e].pc = "idle"]_vars

(* ---- C28 ---- *)
\* C28: when annotations are merged onto a base PDF, the annotations of the
\* page at position k of the page order are drawn on page k of the PDF,
\* also when some pages have no page file or fail to decode.
C28_AnnotationsOnOwnPage ==
    \A d \in result.drawn : d.from = d.on

=============================================================================
